---- MODULE Spec2Model ----
(***************************************************************************)
(* Meeting Copilot: the real-time audio segmentation pipeline.             *)
(*                                                                         *)
(*   AudioRingBuffer   src/src/meeting_copilot/audio/ring_buffer.py        *)
(*   VADSegmenter      src/src/meeting_copilot/audio/vad.py                *)
(*   MeetingCopilotApp src/src/meeting_copilot/app.py                      *)
(*                                                                         *)
(* Audio is a stream of bytes.  No component looks at the value of a byte  *)
(* (the frame classifier is an external capability), so a byte is modelled *)
(* by its position in the stream that produced it: any loss, duplication   *)
(* or reordering of bytes is visible in the contents of a buffer.          *)
(*                                                                         *)
(* Three specifications share the variables:                               *)
(*   SpecRing  the ring buffer driven by append / get_last_seconds / clear *)
(*   SpecVad   the segmenter driven by process_audio / flush / reset       *)
(*   Spec      the orchestrator: capture callbacks, mute, consumer thread  *)
(***************************************************************************)
EXTENDS Integers, Sequences, FiniteSets, TLC

(***************************************************************************)
(* Bounds of the model.                                                    *)
(***************************************************************************)
\* ring buffer configurations tried: max_seconds in 0..MaxSeconds, ...
MaxSeconds == 2
MaxSampleRate == 2
MaxChannels == 2
\* longest chunk handed to one append call, and bytes appended between clears
MaxAppendBytes == 3
MaxStreamBytes == 10
\* get_last_seconds(num / den) for num in 0..MaxSecondsNum, den in 1..2
MaxSecondsNum == 3
MaxSecondsDen == 3
\* segmenter configurations tried: frame_bytes in 1..MaxFrameBytes and
\* padding_frames in 0..MaxPaddingFrames
MaxFrameBytes == 2
MaxPaddingFrames == 5
\* longest chunk handed to one process_audio call, and bytes fed in a run
MaxChunkBytes == 3
MaxFedBytes == 10

\* the orchestrator: Queue(maxsize=200) and deque(maxlen=50) in the code,
\* scaled down; prewake_buffer_seconds and the padding frames of the
\* settings; the bytes of a captured chunk, which is one segmenter frame as
\* with the default settings (chunk_size 480 samples = 30 ms at 16 kHz);
\* chunks captured in a run
QueueMaxsize == 2
HistoryMaxlen == 3
PrewakeSeconds == 1
AppPaddingFrames == 1
ChunkBytes == 1
MaxChunks == 4
ContextEntries == 2
LockChunkBytes == 2
MaxLockAppends == 3
MaxLockReads == 2

MaxUtterances == 5

MaxPieces == 3

\* max_utterance_seconds of the settings, counted in segmenter frames
MaxUtteranceFrames == 3

VARIABLES
    ring_buffer,   \* the AudioRingBuffer
    rb_obs,        \* history: what was appended since the last clear, last call
    vad,           \* the VADSegmenter
    vad_gen,       \* the process_audio generator being iterated
    vad_obs,       \* history: bytes fed, last call and its result, runs
    is_running,    \* MeetingCopilotApp.is_running, the shutdown flag
    is_muted,      \* MeetingCopilotApp.is_muted
    audio_queue,   \* MeetingCopilotApp.audio_queue
    transcript_history,
    capture,       \* per capture thread: where its callback is, its chunk
    cons,          \* the consumer thread: where it is, what it holds
    current_mode,  \* MeetingCopilotApp.current_mode
    tts,           \* the playback threads started by speak_async, still running
    app_obs,       \* history: what was captured, queued, dequeued, emitted
    rb_lock,       \* AudioRingBuffer._lock: the thread holding it, or "free"
    rb_callers,    \* per thread: where it is in append or get_last_seconds
    lock_obs,      \* history: the chunks whose append has completed, in order
    vad_new,       \* a VADSegmenter(...) call: its arguments, its outcome
    wake_word,     \* a TextWakeWord, the text given to it, what it returned
    audio_capture  \* a MicrophoneCapture or LoopbackCapture, its last call

ring_vars == <<ring_buffer, rb_obs>>

vad_vars == <<vad, vad_gen, vad_obs>>

app_vars == <<is_running, is_muted, audio_queue, transcript_history,
              capture, cons, current_mode, tts, app_obs>>

lock_vars == <<rb_lock, rb_callers, lock_obs>>

unit_vars == <<vad_new, wake_word, audio_capture>>

vars == <<ring_vars, vad_vars, app_vars, lock_vars, unit_vars>>

(***************************************************************************)
(* Python values.                                                          *)
(***************************************************************************)
Min(a, b) == IF a <= b THEN a ELSE b

\* Optional[T]: None, or a value
None == [some |-> FALSE, val |-> <<>>]

Some(x) == [some |-> TRUE, val |-> x]

\* s[n:] for 0 <= n
SliceFrom(s, n) == SubSeq(s, n + 1, Len(s))

\* the last n elements of s (all of s when it is shorter)
LastN(s, n) == SliceFrom(s, Len(s) - Min(n, Len(s)))

\* b"".join(chunks)
RECURSIVE join(_)
join(chunks) ==
    IF chunks = <<>> THEN <<>> ELSE Head(chunks) \o join(Tail(chunks))

\* the bytes at stream positions from+1 .. from+n
Bytes(from, n) == [i \in 1..n |-> from + i]

(***************************************************************************)
(* collections.deque(maxlen=maxlen).append(x): a full deque drops its      *)
(* oldest element; a deque of maxlen 0 stays empty.                        *)
(***************************************************************************)
\* variant: no maxlen
deque_append_unbounded(d, x, maxlen) == Append(d, x)

\* variant: a full deque refuses the new element
deque_append_drop_newest(d, x, maxlen) ==
    IF Len(d) >= maxlen THEN d ELSE Append(d, x)

deque_append(d, x, maxlen) ==
    IF maxlen = 0 THEN d
    ELSE IF Len(d) >= maxlen THEN Append(Tail(d), x)
    ELSE Append(d, x)

(***************************************************************************)
(* AudioRingBuffer                                                         *)
(***************************************************************************)
\* __init__
AudioRingBuffer(max_seconds, sample_rate, channels) ==
    LET bytes_per_second == sample_rate * channels * 2
    IN  [ max_seconds |-> max_seconds,
          sample_rate |-> sample_rate,
          channels    |-> channels,
          max_bytes   |-> max_seconds * bytes_per_second,
          buffer      |-> <<>>,
          total_bytes |-> 0 ]

\* one iteration of the loop of append
append_byte(rb, byte) ==
    [rb EXCEPT !.buffer = deque_append(rb.buffer, byte, rb.max_bytes)]

\* the statement after the loop of append
append_total(rb, audio_data) ==
    [rb EXCEPT !.total_bytes = rb.total_bytes + Len(audio_data)]

\* with self._lock: the lock can be taken when no thread holds it
\* variant: no lock
lock_free_always(lock) == TRUE

lock_free(lock) == lock = "free"

\* the loop of append: one deque append per byte
RECURSIVE extend_bytes(_, _, _)
extend_bytes(buf, data, maxlen) ==
    IF data = <<>> THEN buf
    ELSE extend_bytes(deque_append(buf, Head(data), maxlen), Tail(data), maxlen)

\* append, under the lock
append(rb, audio_data) ==
    [rb EXCEPT !.buffer = extend_bytes(rb.buffer, audio_data, rb.max_bytes),
               !.total_bytes = rb.total_bytes + Len(audio_data)]

\* int(seconds * bytes_per_second) for seconds = num / den >= 0
\* variant: rounded up
seconds_to_bytes_round_up(seconds, bytes_per_second) ==
    (seconds.val[1] * bytes_per_second + seconds.val[2] - 1) \div seconds.val[2]

seconds_to_bytes(seconds, bytes_per_second) ==
    (seconds.val[1] * bytes_per_second) \div seconds.val[2]

\* get_last_seconds, under the lock; seconds is None or Some(<<num, den>>)
get_last_seconds(rb, seconds) ==
    IF rb.buffer = <<>> THEN <<>>
    ELSE IF ~seconds.some THEN rb.buffer
    ELSE LET bytes_per_second == rb.sample_rate * rb.channels * 2
             num_bytes == Min(seconds_to_bytes(seconds, bytes_per_second),
                              Len(rb.buffer))
         IN  IF num_bytes >= Len(rb.buffer) THEN rb.buffer
             ELSE SliceFrom(rb.buffer, Len(rb.buffer) - num_bytes)

\* clear, under the lock
clear(rb) == [rb EXCEPT !.buffer = <<>>, !.total_bytes = 0]

(***************************************************************************)
(* VADSegmenter                                                            *)
(*                                                                         *)
(* frame_bytes and padding_frames are the values __init__ derives from     *)
(* sample_rate, frame_ms and padding_ms.  The frame classifier             *)
(* (webrtcvad.Vad.is_speech) is external: its answer for a frame is an     *)
(* input, one of "speech", "silence" and "error" (the call raised).        *)
(***************************************************************************)
Classes == {"speech", "silence", "error"}

\* __init__, state part
VADSegmenter(frame_bytes, padding_frames) ==
    [ frame_bytes       |-> frame_bytes,
      padding_frames    |-> padding_frames,
      ring              |-> <<>>,
      triggered         |-> FALSE,
      current_utterance |-> <<>> ]

\* sum(1 for _, speech in ring if speech)
num_voiced(ring) == Cardinality({i \in DOMAIN ring : ring[i].speech})

\* sum(1 for _, speech in ring if not speech)
\* variant: the test copied from num_voiced
num_unvoiced_counts_speech(ring) ==
    Cardinality({i \in DOMAIN ring : ring[i].speech})

num_unvoiced(ring) == Cardinality({i \in DOMAIN ring : ~ring[i].speech})

\* num_voiced > 0.6 * ring.maxlen (the two sides agree with the float
\* comparison for every maxlen below 2000)
\* variant: >= for >
start_threshold_inclusive(n, maxlen) == 10 * n >= 6 * maxlen

start_threshold(n, maxlen) == 10 * n > 6 * maxlen

\* num_unvoiced > 0.8 * ring.maxlen
\* variant: >= for >
end_threshold_inclusive(n, maxlen) == 10 * n >= 8 * maxlen

end_threshold(n, maxlen) == 10 * n > 8 * maxlen

\* [f for f, _ in ring]
ring_frames(ring) == [i \in DOMAIN ring |-> ring[i].frame]

\* the utterance buffer at the trigger: one element, the joined window
\* variant: the triggering frame alone
seed_utterance_trigger_only(ring) == << ring[Len(ring)].frame >>

seed_utterance(ring) == << join(ring_frames(ring)) >>

\* the state after an utterance is emitted ("Reset state")
\* variant: the utterance buffer is kept
emitted_state_keep_utterance(v) == [v EXCEPT !.ring = <<>>, !.triggered = FALSE]

emitted_state(v) ==
    [v EXCEPT !.current_utterance = <<>>, !.ring = <<>>, !.triggered = FALSE]

\* _process_frame once the classifier has answered: the segmenter after the
\* frame, and what it yields
classified_frame(v, frame, is_speech) ==
    LET entry == [frame |-> frame, speech |-> is_speech]
        ring1 == deque_append(v.ring, entry, v.padding_frames)
    IN  IF ~v.triggered
        THEN IF start_threshold(num_voiced(ring1), v.padding_frames)
             THEN [vad |-> [v EXCEPT !.triggered = TRUE,
                                     !.current_utterance = seed_utterance(ring1),
                                     !.ring = <<>>],
                   out |-> None]
             ELSE [vad |-> [v EXCEPT !.ring = ring1], out |-> None]
        ELSE LET utt1 == Append(v.current_utterance, frame)
             IN  IF end_threshold(num_unvoiced(ring1), v.padding_frames)
                 THEN [vad |-> emitted_state(v), out |-> Some(join(utt1))]
                 ELSE [vad |-> [v EXCEPT !.current_utterance = utt1,
                                         !.ring = ring1],
                       out |-> None]

\* _process_frame: the classifier is called inside try; when it raises the
\* frame is skipped
\* variant: a frame the classifier rejects is handled as a silent frame
process_frame_error_as_silence(v, frame, cls) ==
    classified_frame(v, frame, cls = "speech")

process_frame(v, frame, cls) ==
    IF cls = "error" THEN [vad |-> v, out |-> None]
    ELSE classified_frame(v, frame, cls = "speech")

\* flush
\* variant: the state is not cleared
flush_keep_state(v) ==
    IF v.current_utterance # <<>>
    THEN [vad |-> v, out |-> Some(join(v.current_utterance))]
    ELSE [vad |-> v, out |-> None]

flush(v) ==
    IF v.current_utterance # <<>>
    THEN [vad |-> [v EXCEPT !.current_utterance = <<>>,
                            !.triggered = FALSE,
                            !.ring = <<>>],
          out |-> Some(join(v.current_utterance))]
    ELSE [vad |-> v, out |-> None]

\* reset
\* variant: the utterance buffer is not cleared
reset_keep_utterance(v) == [v EXCEPT !.triggered = FALSE, !.ring = <<>>]

reset(v) ==
    [v EXCEPT !.current_utterance = <<>>, !.triggered = FALSE, !.ring = <<>>]

\* process_audio is a generator: gen holds what the for loop has not yet
\* consumed of the chunk, pcm_data[i:], and whether the generator is
\* suspended at its yield (the caller is running).
gen_idle == [active |-> FALSE, rest |-> <<>>, at_yield |-> FALSE]

gen_start(pcm_data) == [active |-> TRUE, rest |-> pcm_data, at_yield |-> FALSE]

\* i in range(0, len(pcm_data) - frame_bytes + 1, frame_bytes)
\* variant: a trailing partial frame is taken too
gen_has_frame_partial(g, frame_bytes) == g.active /\ Len(g.rest) >= 1

gen_has_frame(g, frame_bytes) == g.active /\ Len(g.rest) >= frame_bytes

\* pcm_data[i : i + frame_bytes]
gen_frame(g, frame_bytes) == SubSeq(g.rest, 1, Min(frame_bytes, Len(g.rest)))

gen_advance(g, frame_bytes, yielded) ==
    [g EXCEPT !.rest = SliceFrom(g.rest, Min(frame_bytes, Len(g.rest))),
              !.at_yield = yielded]

(***************************************************************************)
(* MeetingCopilotApp                                                       *)
(***************************************************************************)
\* queue.Queue.put_nowait: the queue after the call, and whether it raised
\* queue.Full
\* variant: no maxsize
put_nowait_unbounded(q, item, maxsize) ==
    [queue |-> Append(q, item), full |-> FALSE]

put_nowait(q, item, maxsize) ==
    IF Len(q) >= maxsize
    THEN [queue |-> q, full |-> TRUE]
    ELSE [queue |-> Append(q, item), full |-> FALSE]

\* queue.Queue.get on a queue that is not empty: first in, first out
\* variant: last in, first out
queue_get_newest(q) ==
    [item |-> q[Len(q)], queue |-> SubSeq(q, 1, Len(q) - 1)]

queue_get(q) == [item |-> Head(q), queue |-> Tail(q)]

\* _on_audio_data, its first statement: a muted pipeline returns at once
\* variant: the flag is not read
mute_gate_ignored(muted) == "append"

\* variant: the test is inverted
mute_gate_inverted(muted) == IF muted THEN "append" ELSE "return"

mute_gate(muted) == IF muted THEN "return" ELSE "append"

\* the capture threads _start_audio_capture starts for an audio source
Threads == {"mic", "loopback"}

threads_of(audio_source) ==
    CASE audio_source = "microphone" -> {"mic"}
      [] audio_source = "system"     -> {"loopback"}
      [] audio_source = "both"       -> {"mic", "loopback"}

\* _audio_processing_thread: the except clause of the loop body.  The
\* exception is printed and the while loop goes on.
\* variant: the exception ends the thread
on_exception_exit(c) == [c EXCEPT !.pc = "stopped", !.utterance = <<>>]

on_exception(c) == [c EXCEPT !.pc = "loop", !.utterance = <<>>]

\* audio_queue.get(timeout=0.1) returns, with an item or with queue.Empty,
\* whatever the queue holds
\* variant: get() without a timeout waits for an item
get_returns_blocking(q) == q # <<>>

get_returns(q) == TRUE

\* if not transcript: continue
\* variant: an empty transcript is handled like any other
after_transcribe_no_skip(transcript) == "append"

after_transcribe(transcript) == IF transcript = "empty" THEN "continue" ELSE "append"

\* if self.wake_word.is_wake(transcript): self._on_wake_detected(transcript)
\* variant: every transcript is handled as a wake hit
wake_gate_always(is_wake) == "wake_detected"

wake_gate(is_wake) == IF is_wake THEN "wake_detected" ELSE "next"

\* "\n".join(list(self.transcript_history)[-10:]), the number of entries
\* scaled to ContextEntries
\* variant: the oldest entries, [:10]
context_text_oldest(history) ==
    SubSeq(history, 1, Min(ContextEntries, Len(history)))

context_text(history) == LastN(history, ContextEntries)

\* _on_transcript: the add_transcript calls it makes, each with its is_wake
\* argument; without a window the transcript is printed
on_transcript(console_mode) ==
    IF console_mode THEN <<>> ELSE <<[is_wake |-> FALSE]>>

\* _on_wake_detected, its first statements: with a window,
\* add_transcript(transcript, is_wake=True)
wake_note(console_mode) ==
    IF console_mode THEN <<>> ELSE <<[is_wake |-> TRUE]>>

\* default_mode and what mode_changed can carry
Modes == {"answer", "opinion", "summarize"}

\* speak_async starts a thread running speak and returns: the playback
\* threads running when it returns
\* variant: speak is called in the calling thread, over when it returns
speak_blocking(playing) == playing

speak_async(playing) == playing + 1

cons_init == [pc |-> "not_started", utterance |-> <<>>, wake |-> FALSE]

capture_init == [t \in Threads |-> [on |-> FALSE, pc |-> "idle", chunk |-> <<>>]]

app_obs_init ==
    [ source |-> "microphone", console_mode |-> FALSE, delivered |-> 0,
      rb_log |-> <<>>, enq_log |-> <<>>, deq_log |-> <<>>,
      muted_drops |-> {}, full_drops |-> {},
      emit_log |-> <<>>, stt_log |-> <<>>,
      raised |-> FALSE,
      transcript |-> "none", events |-> <<>>, respond_args |-> None,
      fed_muted |-> FALSE, appended |-> <<>>,
      start_failed |-> {}, start_raised |-> FALSE, notes |-> <<>> ]

AppUnused ==
    /\ is_running = FALSE
    /\ current_mode = "answer"
    /\ tts = 0
    /\ is_muted = FALSE
    /\ audio_queue = <<>>
    /\ transcript_history = <<>>
    /\ capture = capture_init
    /\ cons = cons_init
    /\ app_obs = app_obs_init



(***************************************************************************)
(* The threads that call into the ring buffer: the capture threads append  *)
(* (through _on_audio_data), the consumer thread reads (through            *)
(* _on_wake_detected).                                                     *)
(***************************************************************************)
LockThreads == Threads \cup {"consumer"}

rb_callers_init ==
    [t \in LockThreads |->
        [pc |-> "idle", audio_data |-> <<>>, todo |-> <<>>,
         seconds |-> None, result |-> <<>>]]

lock_obs_init == [stamped |-> 0, appends |-> 0, reads |-> 0,
                  done |-> <<>>, at_read |-> <<>>]

LockUnused ==
    /\ rb_lock = "free"
    /\ rb_callers = rb_callers_init
    /\ lock_obs = lock_obs_init

UnitUnused ==
    /\ vad_new = None
    /\ wake_word = None
    /\ audio_capture = None

(***************************************************************************)
(* SpecRing: one ring buffer, any sequence of calls.                       *)
(***************************************************************************)
SecondsArgs ==
    {None} \cup {Some(<<n, d>>) : n \in 0..MaxSecondsNum, d \in 1..MaxSecondsDen}

rb_obs_init == [stream |-> <<>>, op |-> "init", seconds |-> None, result |-> <<>>]

no_run == [len |-> 0, speaking |-> FALSE, emitted |-> 0]

vad_obs_init ==
    [ fed |-> 0, op |-> "init", cls |-> "silence", out |-> None,
      expect |-> <<>>, since |-> <<>>, seed |-> <<>>, run |-> no_run,
      seen_speech |-> FALSE, silent_emitted |-> FALSE,
      call_len |-> 0, frames |-> 0 ]

VadUnused ==
    /\ vad = VADSegmenter(1, 0)
    /\ vad_gen = gen_idle
    /\ vad_obs = vad_obs_init

RingUnused ==
    /\ ring_buffer = AudioRingBuffer(0, 1, 1)
    /\ rb_obs = rb_obs_init

InitRing ==
    /\ ring_buffer \in { AudioRingBuffer(ms, sr, ch) :
                           ms \in 0..MaxSeconds, sr \in 1..MaxSampleRate,
                           ch \in 1..MaxChannels }
    /\ rb_obs = rb_obs_init
    /\ VadUnused
    /\ AppUnused
    /\ LockUnused
    /\ UnitUnused

RingAppend ==
    \E n \in 0..MaxAppendBytes :
        /\ Len(rb_obs.stream) + n <= MaxStreamBytes
        /\ LET audio_data == Bytes(Len(rb_obs.stream), n)
           IN  /\ ring_buffer' = append(ring_buffer, audio_data)
               /\ rb_obs' = [rb_obs EXCEPT !.stream = rb_obs.stream \o audio_data,
                                           !.op = "append"]
        /\ UNCHANGED <<unit_vars, lock_vars, vad_vars, app_vars>>

RingGetLastSeconds ==
    \E seconds \in SecondsArgs :
        /\ rb_obs' = [rb_obs EXCEPT !.op = "get_last_seconds",
                                    !.seconds = seconds,
                                    !.result = get_last_seconds(ring_buffer, seconds)]
        /\ UNCHANGED <<unit_vars, lock_vars, ring_buffer, vad_vars, app_vars>>

RingClear ==
    /\ ring_buffer' = clear(ring_buffer)
    /\ rb_obs' = [rb_obs EXCEPT !.stream = <<>>, !.op = "clear"]
    /\ UNCHANGED <<unit_vars, lock_vars, vad_vars, app_vars>>

NextRing == RingAppend \/ RingGetLastSeconds \/ RingClear

SpecRing == InitRing /\ [][NextRing]_vars

(***************************************************************************)
(* SpecLock: one ring buffer shared by the two capture threads and the     *)
(* consumer thread, at the grain of the statements of append and           *)
(* get_last_seconds: taking the lock, one deque append per byte, the       *)
(* counter update, the read, leaving the with block.                       *)
(***************************************************************************)
InitLock ==
    /\ ring_buffer \in { AudioRingBuffer(ms, 1, 1) : ms \in 1..MaxSeconds }
    /\ rb_obs = rb_obs_init
    /\ LockUnused
    /\ UnitUnused
    /\ VadUnused
    /\ AppUnused

\* a capture thread calls append(audio_data)
LkAppendCall(t) ==
    \E n \in 1..LockChunkBytes :
        /\ rb_callers[t].pc = "idle"
        /\ lock_obs.appends < MaxLockAppends
        /\ LET audio_data == Bytes(lock_obs.stamped, n)
           IN  rb_callers' = [rb_callers EXCEPT
                                ![t] = [@ EXCEPT !.pc = "acquire",
                                                 !.audio_data = audio_data,
                                                 !.todo = audio_data]]
        /\ lock_obs' = [lock_obs EXCEPT !.stamped = @ + n, !.appends = @ + 1]
        /\ UNCHANGED <<unit_vars, rb_lock, ring_vars, vad_vars, app_vars>>

\* the consumer thread calls get_last_seconds(seconds)
LkReadCall ==
    \E seconds \in {None, Some(<<1, 1>>)} :
        /\ rb_callers["consumer"].pc = "idle"
        /\ lock_obs.reads < MaxLockReads
        /\ rb_callers' = [rb_callers EXCEPT
                            !["consumer"] = [@ EXCEPT !.pc = "acquire",
                                                      !.seconds = seconds]]
        /\ lock_obs' = [lock_obs EXCEPT !.reads = @ + 1]
        /\ UNCHANGED <<unit_vars, rb_lock, ring_vars, vad_vars, app_vars>>

\* with self._lock: entered
LkAcquire(t) ==
    /\ rb_callers[t].pc = "acquire"
    /\ lock_free(rb_lock)
    /\ rb_lock' = t
    /\ rb_callers' = [rb_callers EXCEPT ![t].pc = "body"]
    /\ UNCHANGED <<unit_vars, lock_obs, ring_vars, vad_vars, app_vars>>

\* for byte in audio_data: self._buffer.append(bytes([byte]))
LkAppendByte(t) ==
    /\ rb_callers[t].pc = "body"
    /\ rb_callers[t].todo # <<>>
    /\ ring_buffer' = append_byte(ring_buffer, Head(rb_callers[t].todo))
    /\ rb_callers' = [rb_callers EXCEPT ![t].todo = Tail(@)]
    /\ UNCHANGED <<unit_vars, rb_lock, lock_obs, rb_obs, vad_vars, app_vars>>

\* self._total_bytes += len(audio_data)
LkAppendTotal(t) ==
    /\ t \in Threads
    /\ rb_callers[t].pc = "body"
    /\ rb_callers[t].todo = <<>>
    /\ ring_buffer' = append_total(ring_buffer, rb_callers[t].audio_data)
    /\ rb_callers' = [rb_callers EXCEPT ![t].pc = "release"]
    /\ lock_obs' = [lock_obs EXCEPT !.done = Append(@, rb_callers[t].audio_data)]
    /\ UNCHANGED <<unit_vars, rb_lock, rb_obs, vad_vars, app_vars>>

\* the body of get_last_seconds
LkRead ==
    /\ rb_callers["consumer"].pc = "body"
    /\ rb_callers' = [rb_callers EXCEPT
                        !["consumer"] =
                            [@ EXCEPT !.pc = "release",
                                      !.result = get_last_seconds(ring_buffer,
                                                       rb_callers["consumer"].seconds)]]
    /\ lock_obs' = [lock_obs EXCEPT !.at_read = join(lock_obs.done)]
    /\ UNCHANGED <<unit_vars, rb_lock, ring_vars, vad_vars, app_vars>>

\* the with block is left
LkRelease(t) ==
    /\ rb_callers[t].pc = "release"
    /\ rb_lock' = "free"
    /\ rb_callers' = [rb_callers EXCEPT ![t].pc = "idle"]
    /\ UNCHANGED <<unit_vars, lock_obs, ring_vars, vad_vars, app_vars>>

NextLock ==
    \/ \E t \in Threads : LkAppendCall(t)
    \/ LkReadCall
    \/ \E t \in LockThreads : LkAcquire(t)
    \/ \E t \in Threads : LkAppendByte(t)
    \/ \E t \in Threads : LkAppendTotal(t)
    \/ LkRead
    \/ \E t \in LockThreads : LkRelease(t)

SpecLock == InitLock /\ [][NextLock]_vars

(***************************************************************************)
(* SpecVad: one segmenter.  The caller creates a process_audio generator   *)
(* for a chunk and iterates it; each iteration of the generator's loop     *)
(* handles one frame.  While the generator is suspended at a yield, or     *)
(* when none is being iterated, the caller may call flush or reset, and it *)
(* may drop a suspended generator (an exception in the loop body does).    *)
(***************************************************************************)
InitVad ==
    /\ vad \in { VADSegmenter(fb, k) :
                   fb \in 1..MaxFrameBytes, k \in 0..MaxPaddingFrames }
    /\ vad_gen = gen_idle
    /\ vad_obs = vad_obs_init
    /\ RingUnused
    /\ AppUnused
    /\ LockUnused
    /\ UnitUnused

caller_runs(g) == ~g.active \/ g.at_yield

\* the decision window after a push, oldest dropped beyond k entries
Pushed(ring, entry, k) == LastN(Append(ring, entry), k)

\* History kept for the properties, after one frame (v the segmenter before
\* the frame, r what _process_frame made of it):
\*   seed    the frames of the decision window at the last trigger, joined
\*   since   the frames of the utterance in progress, joined: the window at
\*           the trigger, then every frame classified while SPEAKING
\*   expect  since, at the moment an utterance is emitted or flushed
\*   run     the current run of silent frames: its length (counted up to
\*           padding_frames + 1), whether it began in SPEAKING, and the
\*           utterances emitted during it
observe_frame(o, v, frame, cls, r) ==
    LET entry == [frame |-> frame, speech |-> cls = "speech"]
        emitted == IF r.out.some THEN 1 ELSE 0
        trigger == cls # "error" /\ ~v.triggered /\ r.vad.triggered
        window == join(ring_frames(Pushed(v.ring, entry, v.padding_frames)))
        since1 == IF cls = "error" THEN o.since
                  ELSE IF v.triggered THEN o.since \o frame
                  ELSE IF trigger THEN window
                  ELSE o.since
    IN  [o EXCEPT
          !.op = "frame", !.cls = cls, !.out = r.out,
          !.frames = o.frames + 1,
          !.expect = IF r.out.some THEN since1 ELSE <<>>,
          !.since = IF r.out.some THEN <<>> ELSE since1,
          !.seed = IF trigger THEN window ELSE o.seed,
          !.seen_speech = o.seen_speech \/ cls = "speech",
          !.silent_emitted = o.silent_emitted \/ (r.out.some /\ ~o.seen_speech),
          !.run = IF cls = "error" THEN o.run
                  ELSE IF cls = "speech" THEN no_run
                  ELSE IF o.run.len = 0
                       THEN [len |-> 1, speaking |-> v.triggered, emitted |-> emitted]
                       ELSE [o.run EXCEPT
                               !.len = Min(o.run.len + 1, v.padding_frames + 1),
                               !.emitted = o.run.emitted + emitted] ]

observe_call(o, op, out) ==
    [o EXCEPT !.op = op, !.out = out, !.expect = <<>>]

\* process_audio(pcm_data) is called and its generator created
VadProcessAudio ==
    \E n \in 0..MaxChunkBytes :
        /\ ~vad_gen.active
        /\ vad_obs.fed + n <= MaxFedBytes
        /\ vad_gen' = gen_start(Bytes(vad_obs.fed, n))
        /\ vad_obs' = [observe_call(vad_obs, "call", None) EXCEPT
                         !.fed = vad_obs.fed + n,
                         !.call_len = n, !.frames = 0]
        /\ UNCHANGED <<unit_vars, lock_vars, vad, ring_vars, app_vars>>

\* one iteration of the loop of process_audio
VadIterate ==
    \E cls \in Classes :
        /\ gen_has_frame(vad_gen, vad.frame_bytes)
        /\ LET frame == gen_frame(vad_gen, vad.frame_bytes)
               r == process_frame(vad, frame, cls)
           IN  /\ vad' = r.vad
               /\ vad_gen' = gen_advance(vad_gen, vad.frame_bytes, r.out.some)
               /\ vad_obs' = observe_frame(vad_obs, vad, frame, cls, r)
        /\ UNCHANGED <<unit_vars, lock_vars, ring_vars, app_vars>>

\* the loop of process_audio ends: the generator is exhausted
VadExhaust ==
    /\ vad_gen.active
    /\ ~gen_has_frame(vad_gen, vad.frame_bytes)
    /\ vad_gen' = gen_idle
    /\ vad_obs' = [observe_call(vad_obs, "done", None) EXCEPT
                     !.call_len = 0, !.frames = 0]
    /\ UNCHANGED <<unit_vars, lock_vars, vad, ring_vars, app_vars>>

\* the caller drops a suspended generator
VadAbandon ==
    /\ vad_gen.active
    /\ vad_gen.at_yield
    /\ vad_gen' = gen_idle
    /\ vad_obs' = [observe_call(vad_obs, "abandon", None) EXCEPT
                     !.call_len = 0, !.frames = 0]
    /\ UNCHANGED <<unit_vars, lock_vars, vad, ring_vars, app_vars>>

VadFlush ==
    /\ caller_runs(vad_gen)
    /\ LET r == flush(vad)
       IN  /\ vad' = r.vad
           /\ vad_obs' = [observe_call(vad_obs, "flush", r.out) EXCEPT
                            !.expect = IF r.out.some THEN vad_obs.since ELSE <<>>,
                            !.since = <<>>,
                            !.call_len = IF vad_gen.active THEN @ ELSE 0,
                            !.frames = IF vad_gen.active THEN @ ELSE 0,
                            !.silent_emitted =
                                vad_obs.silent_emitted
                                \/ (r.out.some /\ ~vad_obs.seen_speech),
                            !.run = no_run]
    /\ UNCHANGED <<unit_vars, lock_vars, vad_gen, ring_vars, app_vars>>

VadReset ==
    /\ caller_runs(vad_gen)
    /\ vad' = reset(vad)
    /\ vad_obs' = [observe_call(vad_obs, "reset", None) EXCEPT
                     !.since = <<>>, !.run = no_run,
                     !.call_len = IF vad_gen.active THEN @ ELSE 0,
                     !.frames = IF vad_gen.active THEN @ ELSE 0]
    /\ UNCHANGED <<unit_vars, lock_vars, vad_gen, ring_vars, app_vars>>

NextVad ==
    \/ VadProcessAudio
    \/ VadIterate
    \/ VadExhaust
    \/ VadAbandon
    \/ VadFlush
    \/ VadReset

SpecVad == InitVad /\ [][NextVad]_vars

(***************************************************************************)
(* Spec: the orchestrator.  The capture threads run _on_audio_data, the    *)
(* presentation layer sets the mute flag and requests the shutdown, the    *)
(* consumer thread runs _audio_processing_thread.  A transcript is         *)
(* modelled by the utterance it was made from and by whether it holds the  *)
(* wake phrase; the collaborators (transcription, presentation, response   *)
(* generation, synthesis) may return or raise.                             *)
(***************************************************************************)
\* MeetingCopilotApp(console_mode) with settings.audio_source
AppInit(audio_source, console_mode) ==
    /\ ring_buffer = AudioRingBuffer(PrewakeSeconds, 1, 1)
    /\ rb_obs = rb_obs_init
    /\ vad = VADSegmenter(ChunkBytes, AppPaddingFrames)
    /\ vad_gen = gen_idle
    /\ vad_obs = vad_obs_init
    /\ is_running = FALSE
    /\ is_muted = FALSE
    /\ audio_queue = <<>>
    /\ transcript_history = <<>>
    /\ capture = capture_init
    /\ cons = cons_init
    /\ current_mode = "answer"
    /\ tts = 0
    /\ LockUnused
    /\ UnitUnused
    /\ app_obs = [app_obs_init EXCEPT !.source = audio_source,
                                      !.console_mode = console_mode]

\* with a window, any audio source
Init == \E src \in {"microphone", "system", "both"} : AppInit(src, FALSE)

\* with or without a window, one capture thread
InitWake == \E console_mode \in BOOLEAN : AppInit("microphone", console_mode)

\* _start_audio_capture with the captures whose start raises: the
\* microphone is started outside any try, so its exception leaves the
\* method at once; the exception of the system capture is caught and
\* printed
start_audio_capture(audio_source, failing) ==
    IF "mic" \in threads_of(audio_source) /\ "mic" \in failing
    THEN [raised |-> TRUE, started |-> {}]
    ELSE [raised |-> FALSE, started |-> threads_of(audio_source) \ failing]

\* the process runs: no exception has left run_console / run_ui
Alive == ~app_obs.start_raised

\* run_console / run_ui: set the flag, start the captures, then start the
\* consumer; an exception out of _start_audio_capture is caught by nothing
\* and ends the process before the consumer thread is created
Run ==
    /\ cons.pc = "not_started"
    /\ Alive
    /\ is_running' = TRUE
    /\ \E failing \in SUBSET threads_of(app_obs.source) :
          LET r == start_audio_capture(app_obs.source, failing)
          IN  /\ capture' = [t \in Threads |->
                               [capture[t] EXCEPT !.on = t \in r.started]]
              /\ cons' = IF r.raised THEN cons ELSE [cons EXCEPT !.pc = "loop"]
              /\ app_obs' = [app_obs EXCEPT !.start_failed = failing,
                                            !.start_raised = r.raised]
    /\ UNCHANGED <<unit_vars, lock_vars, current_mode, tts, ring_vars, vad_vars, is_muted, audio_queue,
                   transcript_history>>

\* a capture thread calls _on_audio_data(pcm_bytes): the mute check
CbCall(t) ==
    /\ capture[t].on
    /\ capture[t].pc = "idle"
    /\ app_obs.delivered < MaxChunks
    /\ LET pcm_bytes == Bytes(app_obs.delivered * ChunkBytes, ChunkBytes)
           gate == mute_gate(is_muted)
       IN  /\ capture' = [capture EXCEPT ![t] =
                            IF gate = "return" THEN @
                            ELSE [@ EXCEPT !.pc = "append", !.chunk = pcm_bytes]]
           /\ app_obs' = [app_obs EXCEPT
                            !.delivered = @ + 1,
                            !.muted_drops = IF is_muted THEN @ \cup {pcm_bytes} ELSE @]
    /\ UNCHANGED <<unit_vars, lock_vars, current_mode, tts, ring_vars, vad_vars, is_running, is_muted, audio_queue,
                   transcript_history, cons>>

\* _on_audio_data: self.ring_buffer.append(pcm_bytes)
CbAppend(t) ==
    /\ capture[t].pc = "append"
    /\ ring_buffer' = append(ring_buffer, capture[t].chunk)
    /\ capture' = [capture EXCEPT ![t].pc = "put"]
    /\ app_obs' = [app_obs EXCEPT !.rb_log = Append(@, capture[t].chunk)]
    /\ UNCHANGED <<unit_vars, lock_vars, current_mode, tts, rb_obs, vad_vars, is_running, is_muted, audio_queue,
                   transcript_history, cons>>

\* _on_audio_data: put_nowait, queue.Full passed over; the callback returns
CbPut(t) ==
    /\ capture[t].pc = "put"
    /\ LET r == put_nowait(audio_queue, capture[t].chunk, QueueMaxsize)
       IN  /\ audio_queue' = r.queue
           /\ app_obs' = [app_obs EXCEPT
                            !.enq_log = IF r.full THEN @ ELSE Append(@, capture[t].chunk),
                            !.full_drops = IF r.full THEN @ \cup {capture[t].chunk} ELSE @]
    /\ capture' = [capture EXCEPT ![t].pc = "idle", ![t].chunk = <<>>]
    /\ UNCHANGED <<unit_vars, lock_vars, current_mode, tts, ring_vars, vad_vars, is_running, is_muted,
                   transcript_history, cons>>

\* _on_ui_mute_toggled
\* variant: the segmenter is reset with every change of the flag
MuteToggled_reset ==
    \E muted \in BOOLEAN :
        /\ is_running
        /\ Alive
        /\ ~app_obs.console_mode
        /\ is_muted' = muted
        /\ vad' = reset(vad)
        /\ UNCHANGED <<unit_vars, lock_vars, current_mode, tts, ring_vars, vad_gen, vad_obs,
                       is_running, audio_queue, transcript_history, capture, cons,
                       app_obs>>

MuteToggled ==
    \E muted \in BOOLEAN :
        /\ is_running
        /\ Alive
        /\ ~app_obs.console_mode
        /\ is_muted' = muted
        /\ UNCHANGED <<unit_vars, lock_vars, current_mode, tts, ring_vars, vad_vars, is_running, audio_queue,
                       transcript_history, capture, cons, app_obs>>

\* _on_ui_mode_changed
ModeChanged ==
    \E mode \in Modes :
        /\ is_running
        /\ Alive
        /\ ~app_obs.console_mode
        /\ current_mode' = mode
        /\ UNCHANGED <<unit_vars, lock_vars, ring_vars, vad_vars, is_running, is_muted,
                       audio_queue, transcript_history, capture, cons, tts, app_obs>>

\* a playback thread started by speak_async ends
TtsDone ==
    /\ tts > 0
    /\ tts' = tts - 1
    /\ UNCHANGED <<unit_vars, lock_vars, ring_vars, vad_vars, is_running, is_muted,
                   audio_queue, transcript_history, capture, cons, current_mode,
                   app_obs>>

\* _on_ui_quit, and the KeyboardInterrupt branch of run_console: clear the
\* flag and stop the captures (a callback under way runs to its end)
Quit ==
    /\ is_running
    /\ Alive
    /\ is_running' = FALSE
    /\ capture' = [t \in Threads |-> [capture[t] EXCEPT !.on = FALSE]]
    /\ UNCHANGED <<unit_vars, lock_vars, current_mode, tts, ring_vars, vad_vars, is_muted, audio_queue,
                   transcript_history, cons, app_obs>>

\* while self.is_running
ConsLoop ==
    /\ cons.pc = "loop"
    /\ cons' = [cons EXCEPT !.pc = IF is_running THEN "get" ELSE "stopped"]
    /\ app_obs' = [app_obs EXCEPT !.raised = FALSE, !.transcript = "none",
                                  !.events = <<>>, !.respond_args = None, !.notes = <<>>,
                                  !.fed_muted = FALSE]
    /\ UNCHANGED <<unit_vars, lock_vars, current_mode, tts, ring_vars, vad_vars, is_running,
                   is_muted, audio_queue, transcript_history, capture>>

\* audio_queue.get(timeout=0.1): an item, or queue.Empty and continue;
\* then the generator of process_audio(pcm_data) is created
ConsGet ==
    /\ cons.pc = "get"
    /\ get_returns(audio_queue)
    /\ IF audio_queue = <<>>
       THEN /\ cons' = [cons EXCEPT !.pc = "loop"]
            /\ UNCHANGED <<audio_queue, vad_gen, app_obs>>
       ELSE LET r == queue_get(audio_queue)
            IN  /\ audio_queue' = r.queue
                /\ vad_gen' = gen_start(r.item)
                /\ cons' = [cons EXCEPT !.pc = "iter"]
                /\ app_obs' = [app_obs EXCEPT !.deq_log = Append(@, r.item),
                                              !.fed_muted = is_muted]
    /\ UNCHANGED <<unit_vars, lock_vars, current_mode, tts, ring_vars, vad, vad_obs,
                   is_running, is_muted, transcript_history, capture>>

\* for utterance in self.vad.process_audio(pcm_data): the generator handles
\* one frame, or is exhausted and the loop body ends
ConsIter ==
    /\ cons.pc = "iter"
    /\ IF gen_has_frame(vad_gen, vad.frame_bytes)
       THEN \E cls \in Classes :
              LET r == process_frame(vad, gen_frame(vad_gen, vad.frame_bytes), cls)
              IN  /\ vad' = r.vad
                  /\ vad_gen' = gen_advance(vad_gen, vad.frame_bytes, r.out.some)
                  /\ cons' = IF r.out.some
                             THEN [cons EXCEPT !.pc = "stt", !.utterance = r.out.val]
                             ELSE cons
                  /\ app_obs' = [app_obs EXCEPT
                                   !.emit_log = IF r.out.some
                                                THEN Append(@, r.out.val) ELSE @,
                                   !.transcript = "none",
                                   !.events = <<>>,
                                   !.respond_args = None, !.notes = <<>>,
                                   !.fed_muted = FALSE]
       ELSE /\ vad_gen' = gen_idle
            /\ cons' = [cons EXCEPT !.pc = "loop"]
            /\ app_obs' = [app_obs EXCEPT !.transcript = "none", !.events = <<>>,
                                          !.respond_args = None, !.notes = <<>>,
                                          !.fed_muted = FALSE]
            /\ UNCHANGED vad
    /\ UNCHANGED <<unit_vars, lock_vars, current_mode, tts, ring_vars, vad_obs, is_running,
                   is_muted, audio_queue, transcript_history, capture>>

\* an exception in the loop body: the generator is dropped, the except
\* clause runs
Raise ==
    /\ cons' = on_exception(cons)
    /\ vad_gen' = gen_idle
    /\ UNCHANGED <<transcript_history, tts>>

\* the loop body goes back to the generator for the next utterance
\* variant: the loop body goes on to the next dequeue
Resume_to_get ==
    /\ cons' = [cons EXCEPT !.pc = "get", !.utterance = <<>>, !.wake = FALSE]
    /\ vad_gen' = [vad_gen EXCEPT !.at_yield = FALSE]

Resume ==
    /\ cons' = [cons EXCEPT !.pc = "iter", !.utterance = <<>>, !.wake = FALSE]
    /\ vad_gen' = [vad_gen EXCEPT !.at_yield = FALSE]

\* self.stt.transcribe_pcm16(utterance, ...); an empty transcript is
\* skipped, any other is appended to transcript_history
ConsTranscribe ==
    /\ cons.pc = "stt"
    /\ \E outcome \in {"raise", "empty", "text", "wake"} :
          IF outcome = "raise"
          THEN /\ app_obs' = [app_obs EXCEPT
                                !.stt_log = Append(@, cons.utterance),
                                !.raised = TRUE,
                                !.events = <<"transcribe", "raise">>,
                                !.notes = <<>>]
               /\ Raise
          ELSE /\ app_obs' = [app_obs EXCEPT
                                !.stt_log = Append(@, cons.utterance),
                                !.raised = FALSE,
                                !.transcript = outcome,
                                !.events =
                                    IF after_transcribe(outcome) = "continue"
                                    THEN <<"transcribe">>
                                    ELSE <<"transcribe", "append">>,
                                !.appended =
                                    IF after_transcribe(outcome) = "continue"
                                    THEN @
                                    ELSE Append(@, [utt |-> cons.utterance,
                                                    wake |-> outcome = "wake"])]
               /\ IF after_transcribe(outcome) = "continue"
                  THEN Resume /\ UNCHANGED transcript_history
                  ELSE /\ transcript_history' =
                            deque_append(transcript_history,
                                         [utt |-> cons.utterance,
                                          wake |-> outcome = "wake"],
                                         HistoryMaxlen)
                       /\ cons' = [cons EXCEPT !.pc = "present",
                                               !.wake = (outcome = "wake")]
                       /\ UNCHANGED vad_gen
    /\ UNCHANGED <<unit_vars, lock_vars, current_mode, tts, ring_vars, vad, vad_obs,
                   is_running, is_muted, audio_queue, capture>>

\* self._on_transcript(...), then the wake check
ConsPresent ==
    /\ cons.pc = "present"
    /\ \E raises \in BOOLEAN :
          IF raises
          THEN /\ app_obs' = [app_obs EXCEPT
                                !.raised = TRUE,
                                !.events = @ \o <<"present", "raise">>]
               /\ Raise
          ELSE /\ app_obs' = [app_obs EXCEPT
                                !.raised = FALSE,
                                !.events = @ \o <<"present", "wake_check">>,
                                !.notes = @ \o on_transcript(app_obs.console_mode)]
               /\ IF wake_gate(cons.wake) = "wake_detected"
                  THEN /\ cons' = [cons EXCEPT !.pc = "respond"]
                       /\ UNCHANGED <<vad_gen, transcript_history>>
                  ELSE Resume /\ UNCHANGED transcript_history
    /\ UNCHANGED <<unit_vars, lock_vars, current_mode, tts, ring_vars, vad, vad_obs,
                   is_running, is_muted, audio_queue, capture>>

\* _on_wake_detected up to self.llm.respond(...): the snapshot of the ring
\* buffer, the context, the call
ConsRespond ==
    /\ cons.pc = "respond"
    /\ \E raises \in BOOLEAN :
          /\ app_obs' = [app_obs EXCEPT
                           !.raised = raises,
                           !.events = @ \o <<"snapshot", "context", "respond">>
                                        \o (IF raises THEN <<"raise">> ELSE <<>>),
                           !.notes = @ \o wake_note(app_obs.console_mode),
                           !.respond_args =
                               Some([mode |-> current_mode,
                                     context |-> context_text(transcript_history)])]
          /\ IF raises THEN Raise
             ELSE /\ cons' = [cons EXCEPT !.pc = "speak"]
                  /\ UNCHANGED <<vad_gen, transcript_history>>
    /\ UNCHANGED <<unit_vars, lock_vars, current_mode, tts, ring_vars, vad, vad_obs,
                   is_running, is_muted, audio_queue, capture>>

\* _on_wake_detected: set_response when there is a window, then
\* self.tts.speak_async(response)
ConsSpeak ==
    /\ cons.pc = "speak"
    /\ \E raises \in BOOLEAN :
          /\ app_obs' = [app_obs EXCEPT
                           !.raised = raises,
                           !.events =
                               @ \o (IF app_obs.console_mode THEN <<>>
                                     ELSE <<"set_response">>)
                                 \o (IF raises THEN <<"raise">>
                                     ELSE <<"speak_async">>)]
          /\ IF raises THEN Raise
             ELSE /\ Resume
                  /\ tts' = speak_async(tts)
                  /\ UNCHANGED transcript_history
    /\ UNCHANGED <<unit_vars, lock_vars, current_mode, ring_vars, vad, vad_obs,
                   is_running, is_muted, audio_queue, capture>>

\* a step of the consumer thread
Consumer ==
    \/ ConsLoop
    \/ ConsGet
    \/ ConsIter
    \/ ConsTranscribe
    \/ ConsPresent
    \/ ConsRespond
    \/ ConsSpeak

Next ==
    \/ Run
    \/ \E t \in Threads : CbCall(t)
    \/ \E t \in Threads : CbAppend(t)
    \/ \E t \in Threads : CbPut(t)
    \/ MuteToggled
    \/ TtsDone
    \/ Quit
    \/ ConsLoop
    \/ ConsGet
    \/ ConsIter
    \/ ConsTranscribe
    \/ ConsPresent
    \/ ConsRespond
    \/ ConsSpeak

Spec == Init /\ [][Next]_vars

\* SpecWake: the orchestrator with one capture thread, with or without a
\* window, the mode selector included
NextWake == Next \/ ModeChanged

SpecWake == InitWake /\ [][NextWake]_vars

\* the consumer thread is scheduled as long as it can take a step
FairSpec == SpecWake /\ WF_vars(Consumer)

(***************************************************************************)
(* Properties of the ring buffer (SpecRing).                               *)
(***************************************************************************)
\* C1: with capacity_bytes > 0, after every append the stored length is at
\* most capacity_bytes, and get_last_seconds(None) returns exactly the last
\* min(bytes appended since the last clear, capacity_bytes) bytes of the
\* appended stream, oldest first.
C1_RingBound ==
    LET cap == ring_buffer.max_bytes
        expected == LastN(rb_obs.stream, Min(Len(rb_obs.stream), cap))
    IN  cap > 0 =>
          /\ Len(ring_buffer.buffer) <= cap
          /\ get_last_seconds(ring_buffer, None) = expected
          /\ (rb_obs.op = "get_last_seconds" /\ ~rb_obs.seconds.some)
                => rb_obs.result = expected

\* a get_last_seconds(None) after the stream outgrew the capacity
C1_Witness ==
    /\ ring_buffer.max_bytes > 0
    /\ Len(rb_obs.stream) > ring_buffer.max_bytes + 1
    /\ rb_obs.op = "get_last_seconds"
    /\ ~rb_obs.seconds.some
    /\ Len(rb_obs.result) = ring_buffer.max_bytes

(***************************************************************************)
(* Properties of the segmenter (SpecVad).                                  *)
(***************************************************************************)
K == vad.padding_frames

\* the number of entries of window w whose speech flag is b
CountSpeech(w, b) == Cardinality({i \in DOMAIN w : w[i].speech = b})

IsPrefix(p, s) == Len(p) <= Len(s) /\ SubSeq(s, 1, Len(p)) = p

\* the step handles one frame; the window as it is once the frame is pushed
FrameStep == vad_obs'.op = "frame"

PushedWindow ==
    Pushed(vad.ring,
           [frame |-> gen_frame(vad_gen, vad.frame_bytes),
            speech |-> vad_obs'.cls = "speech"],
           K)

\* C2: from IDLE the segmenter goes to SPEAKING on a frame exactly when,
\* with that frame pushed into the decision window (at most K entries,
\* oldest dropped), strictly more than 0.6 x K entries are voiced; with
\* silent frames only it never goes to SPEAKING and never emits.
C2_Hysteresis ==
    /\ [][ (FrameStep /\ ~vad.triggered) =>
             ( vad'.triggered <=>
                 /\ vad_obs'.cls # "error"
                 /\ 10 * CountSpeech(PushedWindow, TRUE) > 6 * K ) ]_vars
    /\ [](~vad_obs.seen_speech => ~vad.triggered /\ ~vad_obs.silent_emitted)

\* a trigger with K = 5 on a full window: four voiced entries, one unvoiced
C2_Witness ==
    /\ vad_obs.op = "frame"
    /\ vad.triggered
    /\ vad.ring = <<>>
    /\ K = 5
    /\ Len(vad_obs.since) = 5 * vad.frame_bytes

\* ceil(0.8 x K)
CeilEnd(k) == (8 * k + 9) \div 10

LongSilentRun ==
    /\ vad_obs.run.speaking
    /\ vad_obs.run.len >= CeilEnd(K) + 1

\* C3, as claimed: once SPEAKING, ceil(0.8K)+1 or more consecutive silent
\* frames yield exactly one utterance, as long as all frames appended since
\* the trigger, and afterwards the segmenter is IDLE with an empty utterance
\* buffer and an empty decision window.
C3_Original ==
    LongSilentRun =>
        /\ vad_obs.run.emitted = 1
        /\ ~vad.triggered
        /\ vad.current_utterance = <<>>
        /\ vad.ring = <<>>

\* C3, amended: the run yields exactly one utterance, equal to all frames
\* appended since the trigger (the seed included); right after the emission
\* the segmenter is IDLE with an empty utterance buffer and an empty
\* decision window, and at the end of the run it is IDLE with an empty
\* utterance buffer, the window holding only silent frames fed after the
\* emission.
C3_Termination ==
    /\ LongSilentRun =>
          /\ vad_obs.run.emitted = 1
          /\ ~vad.triggered
          /\ vad.current_utterance = <<>>
          /\ \A i \in DOMAIN vad.ring : ~vad.ring[i].speech
          /\ Len(vad.ring) < vad_obs.run.len
    /\ (vad_obs.op = "frame" /\ vad_obs.out.some) =>
          /\ vad_obs.out.val = vad_obs.expect
          /\ ~vad.triggered
          /\ vad.current_utterance = <<>>
          /\ vad.ring = <<>>

\* the run went on after the emission: the window holds a silent frame
C3_Witness ==
    /\ LongSilentRun
    /\ K >= 3
    /\ vad_obs.run.emitted = 1
    /\ vad_obs.op = "frame"
    /\ vad.ring # <<>>

\* C4: at the IDLE -> SPEAKING transition the utterance buffer is seeded
\* with all frames of the decision window (voiced and unvoiced, oldest
\* first, the triggering frame last) and the window is emptied; every
\* utterance emitted later begins with those frames.
C4_Seed ==
    /\ [][ (FrameStep /\ ~vad.triggered /\ vad'.triggered) =>
             /\ join(vad'.current_utterance) = join(ring_frames(PushedWindow))
             /\ vad'.ring = <<>> ]_vars
    /\ [](vad_obs.out.some =>
             /\ IsPrefix(vad_obs.seed, vad_obs.out.val)
             /\ vad_obs.seed # <<>>)

\* an utterance emitted by process_audio whose seed was a full window of
\* five frames, one of them unvoiced
C4_Witness ==
    /\ vad_obs.op = "frame"
    /\ vad_obs.out.some
    /\ K = 5
    /\ Len(vad_obs.seed) = 5 * vad.frame_bytes
    /\ Len(vad_obs.out.val) > Len(vad_obs.seed)

\* C5: in every reachable state the decision window holds at most K entries
\* and, when triggered is false, the pending utterance buffer is empty.
C5_Invariant ==
    /\ Len(vad.ring) <= K
    /\ ~vad.triggered => vad.current_utterance = <<>>

\* IDLE with a full window, a frame just dropped by a classifier error
C5_Witness ==
    /\ vad_obs.op = "frame"
    /\ vad_obs.cls = "error"
    /\ ~vad.triggered
    /\ K >= 2
    /\ Len(vad.ring) = K

\* C10: flush() with no utterance in progress returns None; while SPEAKING
\* it returns the frames accumulated so far, joined, and leaves the
\* segmenter IDLE; a flush() right after a flush() returns None and changes
\* nothing.
C10_Flush ==
    [][ vad_obs'.op = "flush" =>
          /\ ~vad.triggered => vad_obs'.out = None
          /\ vad.triggered =>
                /\ vad_obs'.out = Some(vad_obs.since)
                /\ ~vad'.triggered
          /\ vad_obs.op = "flush" => (vad_obs'.out = None /\ vad' = vad) ]_vars

\* a flush in the middle of an utterance
C10_Witness ==
    /\ vad_obs.op = "flush"
    /\ vad_obs.out.some
    /\ Len(vad_obs.out.val) >= 2 * vad.frame_bytes
    /\ ~vad.triggered

(***************************************************************************)
(* Properties of the orchestrator (Spec).                                  *)
(***************************************************************************)
\* the elements of a sequence
Range(s) == {s[i] : i \in DOMAIN s}

\* p is s with some elements left out, the order kept
RECURSIVE IsSubseq(_, _)
IsSubseq(p, s) ==
    IF p = <<>> THEN TRUE
    ELSE IF s = <<>> THEN FALSE
    ELSE IF Head(p) = Head(s) THEN IsSubseq(Tail(p), Tail(s))
    ELSE IsSubseq(p, Tail(s))

\* the step is thread t's put_nowait
PutStep(t) == capture[t].pc = "put" /\ capture'[t].pc # "put"

\* the step is a call of _on_audio_data
CallStep == app_obs'.delivered # app_obs.delivered

\* the chunk the call of this step delivers
CalledChunk == Bytes(app_obs.delivered * ChunkBytes, ChunkBytes)

\* C6: _on_audio_data never blocks on the ingress queue and never raises
\* from it: on a full queue the new chunk is dropped and the callback
\* returns, the queue never exceeds its capacity, the chunks already queued
\* are unaffected, and the consumer never sees the dropped chunk.
C6_DropOnOverload ==
    /\ [](/\ Len(audio_queue) <= QueueMaxsize
          /\ \A t \in Threads : capture[t].pc = "put" => ENABLED CbPut(t)
          /\ app_obs.full_drops \cap Range(audio_queue) = {}
          /\ app_obs.full_drops \cap Range(app_obs.deq_log) = {})
    /\ [][ \A t \in Threads :
             PutStep(t) =>
                /\ capture'[t].pc = "idle"
                /\ IF Len(audio_queue) >= QueueMaxsize
                   THEN /\ audio_queue' = audio_queue
                        /\ capture[t].chunk \in app_obs'.full_drops
                   ELSE audio_queue' = Append(audio_queue, capture[t].chunk) ]_vars

\* a chunk was dropped on a full queue that the consumer then drained
C6_Witness ==
    /\ app_obs.full_drops # {}
    /\ Len(app_obs.deq_log) > QueueMaxsize
    /\ audio_queue = <<>>

\* C7: a call of _on_audio_data made while the pipeline is muted neither
\* appends to the ring buffer nor enqueues; after the unmute both resume,
\* for the frames delivered from then on only: a frame delivered while muted
\* is never buffered, queued or segmented.
C7_MuteGating ==
    /\ [][ CallStep =>
             IF is_muted
             THEN /\ ring_buffer' = ring_buffer
                  /\ audio_queue' = audio_queue
                  /\ capture' = capture
             ELSE \E t \in Threads :
                    /\ capture'[t].pc = "append"
                    /\ capture'[t].chunk = CalledChunk ]_vars
    /\ [](\A c \in app_obs.muted_drops :
             /\ c \notin Range(app_obs.rb_log)
             /\ c \notin Range(app_obs.enq_log)
             /\ c \notin Range(app_obs.deq_log)
             /\ c \notin Range(audio_queue)
             /\ \A t \in Threads : capture[t].chunk # c
             /\ Range(c) \cap Range(ring_buffer.buffer) = {}
             /\ Range(c) \cap Range(join(app_obs.emit_log)) = {})
    /\ [](\A i \in 0..(app_obs.delivered - 1) :
             LET c == Bytes(i * ChunkBytes, ChunkBytes)
             IN  \/ c \in app_obs.muted_drops
                 \/ \E t \in Threads : capture[t].chunk = c /\ capture[t].pc = "append"
                 \/ /\ c \in Range(app_obs.rb_log)
                    /\ \/ c \in Range(app_obs.enq_log)
                       \/ c \in app_obs.full_drops
                       \/ \E t \in Threads : capture[t].chunk = c /\ capture[t].pc = "put")

\* a frame was dropped while muted; a later frame, delivered after the
\* unmute, is in the ring buffer and went through the queue
C7_Witness ==
    /\ ~is_muted
    /\ \E c \in app_obs.muted_drops :
         \E i \in DOMAIN app_obs.deq_log :
            /\ app_obs.deq_log[i][1] > c[1]
            /\ app_obs.deq_log[i][1] \in Range(ring_buffer.buffer)

\* C8: the consumer dequeues the chunks in the order they were enqueued,
\* utterances are transcribed in the order the segmenter emitted them, and
\* the entries of transcript_history are in that order too.
C8_Order ==
    /\ app_obs.deq_log \o audio_queue = app_obs.enq_log
    /\ IsPrefix(app_obs.stt_log, app_obs.emit_log)
    /\ Len(app_obs.emit_log) - Len(app_obs.stt_log) = IF cons.pc = "stt" THEN 1 ELSE 0
    /\ IsSubseq(join(app_obs.emit_log), join(app_obs.deq_log))
    /\ IsSubseq([i \in DOMAIN transcript_history |-> transcript_history[i].utt],
                app_obs.stt_log)

\* two utterances went through transcription into the history
C8_Witness ==
    /\ Len(app_obs.stt_log) >= 2
    /\ Len(transcript_history) >= 2
    /\ app_obs.source = "both"

\* C9: an exception raised in the body of the consumer loop is caught
\* inside the loop: the thread is back at the loop test, it ends only once
\* the shutdown flag is cleared, and with the flag set it goes on to the
\* next dequeue.
C9_ExceptionsCaught ==
    /\ [](app_obs.raised => cons.pc = "loop")
    /\ [](cons.pc = "stopped" => ~is_running)
    /\ [][cons'.pc = "stopped" => (cons.pc \in {"loop", "stopped"} /\ ~is_running)]_vars
    /\ [][(cons.pc = "loop" /\ is_running /\ cons' # cons) => cons'.pc = "get"]_vars

\* an exception was raised, the flag is set and a chunk waits in the queue
C9_Witness ==
    /\ app_obs.raised
    /\ cons.pc = "loop"
    /\ is_running
    /\ audio_queue # <<>>
    /\ Len(app_obs.stt_log) >= 1

(***************************************************************************)
(* Segmenter: clearing calls and rejected frames.                          *)
(***************************************************************************)
\* C11: after flush() or reset() returns, from any segmenter state, the
\* triggered flag is false, the pending utterance is empty and the decision
\* window is empty.
C11_ClearedAfterFlushOrReset ==
    vad_obs.op \in {"flush", "reset"} =>
        /\ ~vad.triggered
        /\ vad.current_utterance = <<>>
        /\ vad.ring = <<>>

\* C12: a frame the classifier fails on is dropped: the segmenter is left as
\* it was, nothing is emitted, and the loop of process_audio goes on to the
\* next frame instead of ending with the error.
C12_ErrorFrameDropped ==
    [][(vad_obs'.op = "frame" /\ vad_obs'.cls = "error") =>
          /\ vad' = vad
          /\ ~vad_obs'.out.some
          /\ vad_gen'.active
          /\ ~vad_gen'.at_yield
          /\ vad_gen'.rest = SliceFrom(vad_gen.rest, vad.frame_bytes)]_vars

\* a frame was rejected while an utterance was in progress and the decision
\* window held frames, and another frame of the chunk waits
C12_Witness ==
    /\ vad_obs.op = "frame"
    /\ vad_obs.cls = "error"
    /\ vad.triggered
    /\ vad.ring # <<>>
    /\ vad.padding_frames >= 2
    /\ gen_has_frame(vad_gen, vad.frame_bytes)

(***************************************************************************)
(* Ring buffer: the tail read.                                             *)
(***************************************************************************)
BytesPerSecond == ring_buffer.sample_rate * ring_buffer.channels * 2

\* C13: get_last_seconds(s) with s = num/den >= 0 returns the
\* min(floor(s * sample_rate * channels * 2), stored length) most recent
\* bytes of the buffer.
C13_TailLength ==
    (rb_obs.op = "get_last_seconds" /\ rb_obs.seconds.some) =>
        LET s == rb_obs.seconds.val
            n == Min((s[1] * BytesPerSecond) \div s[2], Len(ring_buffer.buffer))
        IN  /\ Len(rb_obs.result) = n
            /\ rb_obs.result = LastN(ring_buffer.buffer, n)
            /\ rb_obs.result = LastN(rb_obs.stream, n)

\* a read of a duration that is not a whole number of bytes, shorter than
\* what is stored
C13_Witness ==
    /\ rb_obs.op = "get_last_seconds"
    /\ rb_obs.seconds.some
    /\ (rb_obs.seconds.val[1] * BytesPerSecond) % rb_obs.seconds.val[2] # 0
    /\ Len(rb_obs.result) >= 1
    /\ Len(rb_obs.result) < Len(ring_buffer.buffer)

(***************************************************************************)
(* Ring buffer: the lock.                                                  *)
(***************************************************************************)
\* the bytes a thread has appended of the chunk it is appending
Appended(t) ==
    IF rb_callers[t].pc = "body"
    THEN SubSeq(rb_callers[t].audio_data, 1,
                Len(rb_callers[t].audio_data) - Len(rb_callers[t].todo))
    ELSE <<>>

InBlock(t) == rb_callers[t].pc \in {"body", "release"}

\* C14: appends and reads of the ring buffer are mutually exclusive.  At most
\* one thread is inside a with block; the buffer holds the most recent bytes
\* of the completed chunks in the order their appends ran, followed by the
\* bytes appended so far of the one chunk being appended (the bytes of two
\* appends are never interleaved); a read returns bytes of completed chunks
\* only, as if it ran entirely before or after each append.
C14_MutualExclusion ==
    /\ \A t \in LockThreads : InBlock(t) => rb_lock = t
    /\ \A t \in LockThreads : rb_lock = t => InBlock(t)
    /\ \E t \in Threads :
          /\ \A u \in Threads \ {t} : Appended(u) = <<>>
          /\ ring_buffer.buffer =
                LastN(join(lock_obs.done) \o Appended(t), ring_buffer.max_bytes)
    /\ rb_callers["consumer"].pc = "release" =>
          /\ lock_obs.at_read = join(lock_obs.done)
          /\ \A t \in Threads : rb_callers[t].pc # "body"
          /\ rb_callers["consumer"].result =
                get_last_seconds([ring_buffer EXCEPT
                                    !.buffer = LastN(lock_obs.at_read,
                                                     ring_buffer.max_bytes)],
                                 rb_callers["consumer"].seconds)

\* one capture thread is in the middle of a two-byte chunk while the other
\* capture thread and the consumer wait for the lock
C14_Witness ==
    /\ \E t \in Threads :
          /\ rb_callers[t].pc = "body"
          /\ Len(rb_callers[t].todo) = 1
          /\ Len(rb_callers[t].audio_data) = 2
          /\ \A u \in LockThreads \ {t} : rb_callers[u].pc = "acquire"
    /\ lock_obs.done # <<>>

(***************************************************************************)
(* Orchestrator: what the consumer does with an utterance.                 *)
(***************************************************************************)
Handling == cons.pc \in {"stt", "present", "respond", "speak"}

\* the loop body has just ended for an utterance
Over == app_obs.events # <<>> /\ cons.pc \in {"iter", "loop"}

Raised == "raise" \in Range(app_obs.events)

NotRaise(e) == e # "raise"

Performed == SelectSeq(app_obs.events, NotRaise)

PerUtterance == <<"transcribe", "append", "present", "wake_check">>

PerWake(console_mode) ==
    <<"snapshot", "context", "respond">>
    \o (IF console_mode THEN <<>> ELSE <<"set_response">>)
    \o <<"speak_async">>

\* C15: once the shutdown flag is cleared the consumer thread ends.  The
\* dequeue always returns (with a chunk or with queue.Empty), the loop test
\* that finds the flag cleared ends the thread, and a consumer that has been
\* started and finds the flag cleared reaches the end, provided it keeps
\* being scheduled and the collaborators return.
C15_ConsumerExits ==
    /\ [](cons.pc = "get" => ENABLED ConsGet)
    /\ [][(cons.pc = "loop" /\ ~is_running /\ cons'.pc # "loop")
             => cons'.pc = "stopped"]_vars
    /\ ((cons.pc # "not_started" /\ ~is_running) ~> (cons.pc = "stopped"))

\* the consumer has ended after the shutdown, having transcribed an
\* utterance, and chunks are left in the queue
C15_Witness ==
    /\ cons.pc = "stopped"
    /\ ~is_running
    /\ audio_queue # <<>>
    /\ Len(app_obs.stt_log) >= 1

\* C16, as stated: for every emitted utterance whose handling ended without
\* an exception, the consumer has made the transcription call, the history
\* append, the forwarding to the presentation and the wake check, in this
\* order.
C16_Original ==
    (Over /\ ~Raised) => IsPrefix(PerUtterance, app_obs.events)

\* C16: for every emitted utterance the consumer first calls the
\* transcription; on an empty transcript it does nothing more for the
\* utterance (the history is not appended to); otherwise it appends the
\* transcript to the history, forwards it to the presentation and makes the
\* wake check, in this order, an exception skipping the steps that remain.
C16_Order ==
    /\ app_obs.events # <<>> => app_obs.events[1] = "transcribe"
    /\ app_obs.transcript = "empty" =>
          /\ app_obs.events = <<"transcribe">>
          /\ \A i \in DOMAIN transcript_history :
                transcript_history[i].utt # app_obs.stt_log[Len(app_obs.stt_log)]
    /\ LET n == Min(Len(Performed), Len(PerUtterance))
       IN  SubSeq(Performed, 1, n) = SubSeq(PerUtterance, 1, n)
    /\ (Over /\ ~Raised /\ app_obs.transcript # "empty") =>
          IsPrefix(PerUtterance, app_obs.events)
    /\ "append" \in Range(app_obs.events) =>
          /\ transcript_history # <<>>
          /\ transcript_history[Len(transcript_history)].utt
               = app_obs.stt_log[Len(app_obs.stt_log)]

\* a second utterance went through the four steps, it did not hold the wake
\* phrase
C16_Witness ==
    /\ Over
    /\ app_obs.transcript = "text"
    /\ app_obs.events = PerUtterance
    /\ Len(app_obs.stt_log) >= 2

\* C17, as stated: the response generation is called only for a wake hit,
\* and the handling of a wake hit that ended without an exception has made,
\* in order, the snapshot, the context, one response-generation call, one
\* set_response notification and one asynchronous synthesis dispatch.
C17_Original ==
    /\ "respond" \in Range(app_obs.events) => app_obs.transcript = "wake"
    /\ (Over /\ ~Raised /\ app_obs.transcript = "wake") =>
          app_obs.events = PerUtterance \o PerWake(FALSE)

\* C17: the response generation is called only for a wake hit; a wake hit
\* causes, in order, the snapshot, the context, one response-generation call
\* with the mode of that moment and the last entries of the history, one
\* set_response notification when there is a window (none in console mode,
\* where the response is only printed) and one asynchronous synthesis
\* dispatch, an exception skipping the steps that remain.
C17_WakeHandling ==
    /\ []("respond" \in Range(app_obs.events) => app_obs.transcript = "wake")
    /\ []((Over /\ ~Raised /\ app_obs.transcript = "wake") =>
             app_obs.events = PerUtterance \o PerWake(app_obs.console_mode))
    /\ []((Over /\ ~Raised /\ app_obs.transcript # "wake") =>
             Len(app_obs.events) <= Len(PerUtterance))
    /\ [](IsPrefix(Performed, PerUtterance \o PerWake(app_obs.console_mode)))
    /\ [][(cons.pc = "respond" /\ cons'.pc # "respond") =>
             app_obs'.respond_args =
                 Some([mode |-> current_mode,
                       context |-> LastN(transcript_history, ContextEntries)])]_vars

\* a wake hit was handled to the end with a window, in a mode chosen after
\* the start, and the playback it started is running
C17_Witness ==
    /\ Over
    /\ ~Raised
    /\ app_obs.transcript = "wake"
    /\ ~app_obs.console_mode
    /\ app_obs.respond_args.some
    /\ app_obs.respond_args.val.mode = "summarize"
    /\ tts >= 1

\* the bytes the segmenter holds: the utterance in progress and the window
SegmenterBytes ==
    Range(join(vad.current_utterance)) \cup Range(join(ring_frames(vad.ring)))

\* C18: every emitted utterance is passed to the transcription exactly once,
\* in the order of emission (the one just emitted is about to be), no byte
\* is in two transcribed utterances, and once emitted none of its bytes is
\* left in the segmenter; the consumer holds an utterance only while it
\* handles it.
C18_ExactlyOnce ==
    /\ app_obs.emit_log = IF cons.pc = "stt"
                          THEN Append(app_obs.stt_log, cons.utterance)
                          ELSE app_obs.stt_log
    /\ \A i, j \in DOMAIN app_obs.stt_log :
          i # j => Range(app_obs.stt_log[i]) \cap Range(app_obs.stt_log[j]) = {}
    /\ \A i \in DOMAIN app_obs.emit_log :
          Range(app_obs.emit_log[i]) \cap SegmenterBytes = {}
    /\ cons.utterance # <<>> =>
          /\ Handling
          /\ cons.utterance = app_obs.emit_log[Len(app_obs.emit_log)]

\* an utterance was transcribed and the next one is being collected
C18_Witness ==
    /\ Len(app_obs.stt_log) >= 1
    /\ app_obs.emit_log = app_obs.stt_log
    /\ cons.pc = "iter"
    /\ vad.triggered
    /\ transcript_history # <<>>

\* C19: the consumer takes the next chunk from the queue only from the top
\* of its loop, when the generator of the previous chunk is finished and no
\* utterance is left to handle; while an utterance is handled the generator
\* of the chunk it came from stays suspended at its yield.
C19_Serialized ==
    /\ [][app_obs'.deq_log # app_obs.deq_log =>
             /\ cons.pc = "get"
             /\ ~vad_gen.active
             /\ cons.utterance = <<>>
             /\ app_obs.emit_log = app_obs.stt_log
             /\ app_obs.events = <<>>]_vars
    /\ [](Handling =>
             /\ vad_gen.active
             /\ vad_gen.at_yield
             /\ cons.utterance = app_obs.emit_log[Len(app_obs.emit_log)])
    /\ [](Len(app_obs.emit_log) - Len(app_obs.stt_log) <= 1)

\* a chunk was dequeued after a wake hit was handled through to the
\* dispatch, while another chunk waits
C19_Witness ==
    /\ cons.pc = "iter"
    /\ vad_gen.active
    /\ Len(app_obs.deq_log) >= 3
    /\ tts >= 1
    /\ audio_queue # <<>>

\* C20: the hand-off to the synthesis returns with the playback thread it
\* started still to run; the consumer can take a step whenever it has
\* started and not ended, whatever playback is running; a playback thread
\* ends without any step of the consumer.
C20_NonBlocking ==
    /\ [][(cons.pc = "speak" /\ cons'.pc = "iter") => tts' = tts + 1]_vars
    /\ [](cons.pc \notin {"not_started", "stopped"} => ENABLED Consumer)
    /\ [][tts' < tts => cons' = cons]_vars

\* a later utterance is being transcribed while a playback is running
C20_Witness ==
    /\ tts >= 1
    /\ cons.pc = "stt"
    /\ Len(app_obs.deq_log) >= 3

(***************************************************************************)
(* Orchestrator: the mute flag, the shutdown.  Ring buffer: its capacity.  *)
(***************************************************************************)
\* the chunks delivered so far
Delivered == { Bytes(i * ChunkBytes, ChunkBytes) : i \in 0..(app_obs.delivered - 1) }

\* the chunks whose callback is past the mute check and before the append
AtAppend == { capture[t].chunk : t \in {u \in Threads : capture[u].pc = "append"} }

\* C21, as stated: every delivered frame is appended to the ring buffer,
\* whatever the mute flag was at its delivery.
C21_Original ==
    Delivered \subseteq (Range(app_obs.rb_log) \cup AtAppend)

\* C21: a frame delivered while the flag is clear is appended to the ring
\* buffer whether or not the queue then takes it; a frame delivered while
\* the flag is set is not appended: the flag gates the ring buffer as it
\* gates the queue.
C21_RingBufferGated ==
    /\ Range(app_obs.rb_log) \cup AtAppend = Delivered \ app_obs.muted_drops
    /\ app_obs.full_drops \subseteq Range(app_obs.rb_log)
    /\ Range(app_obs.enq_log) \subseteq Range(app_obs.rb_log)

\* one frame was dropped by the mute check, another by the full queue after
\* it was appended to the ring buffer
C21_Witness ==
    /\ app_obs.muted_drops # {}
    /\ app_obs.full_drops # {}
    /\ \A t \in Threads : capture[t].pc = "idle"

\* C22, as stated: while the mute flag is set the consumer feeds no chunk to
\* process_audio.
C22_Original ==
    [][is_muted => app_obs'.deq_log = app_obs.deq_log]_vars

\* C22: every chunk the consumer feeds to process_audio was taken by a
\* callback that found the flag clear, and went through the queue; the
\* consumer does not read the flag, so a chunk queued before the flag was
\* set can be fed while it is set.
C22_FedWasUnmuted ==
    /\ [][app_obs'.deq_log # app_obs.deq_log =>
             LET c == app_obs'.deq_log[Len(app_obs'.deq_log)]
             IN  /\ c = Head(audio_queue)
                 /\ c \in Delivered \ app_obs.muted_drops
                 /\ vad_gen'.rest = c
                 /\ app_obs'.fed_muted = is_muted]_vars
    /\ [][cons' # cons => is_muted' = is_muted]_vars
    /\ [](Range(app_obs.deq_log) \cap app_obs.muted_drops = {})

\* a chunk has just been fed to process_audio while the flag was set, after
\* another chunk had been dropped by the mute check
C22_Witness ==
    /\ app_obs.fed_muted
    /\ app_obs.muted_drops # {}
    /\ cons.pc = "iter"
    /\ vad_gen.active

\* C23: when the consumer has ended after the shutdown, no utterance is left
\* in progress in the segmenter: it was flushed and handed to transcription.
C23_TrailingUtteranceFlushed ==
    cons.pc = "stopped" => (~vad.triggered /\ vad.current_utterance = <<>>)

\* C24: no ring buffer exists with a capacity of zero bytes.
C24_ZeroCapacityRejected ==
    ring_buffer.max_bytes > 0

(***************************************************************************)
(* SpecCtor: the VADSegmenter constructor, called with valid and invalid   *)
(* arguments.  It either raises ValueError or returns an instance.         *)
(***************************************************************************)
\* 0 <= aggressiveness <= 3
\* variant: every level is taken
aggressiveness_ok_any(aggressiveness) == TRUE

aggressiveness_ok(aggressiveness) == 0 <= aggressiveness /\ aggressiveness <= 3

\* VADSegmenter.__init__: three checks in order, then the fields
VADSegmenter_new(sample_rate, aggressiveness, frame_ms, padding_ms) ==
    IF sample_rate \notin {8000, 16000, 32000, 48000}
    THEN [raised |-> "ValueError: sample rate", instance |-> None]
    ELSE IF frame_ms \notin {10, 20, 30}
    THEN [raised |-> "ValueError: frame duration", instance |-> None]
    ELSE IF ~aggressiveness_ok(aggressiveness)
    THEN [raised |-> "ValueError: aggressiveness", instance |-> None]
    ELSE [raised |-> "no",
          instance |-> Some(
              [ vad_mode    |-> aggressiveness,
                sample_rate |-> sample_rate,
                frame_ms    |-> frame_ms,
                padding_ms  |-> padding_ms,
                state       |-> VADSegmenter((sample_rate * frame_ms * 2) \div 1000,
                                             padding_ms \div frame_ms) ])]

SampleRateArgs == {0, 8000, 16000, 22050, 32000, 44100, 48000}

FrameMsArgs == {0, 10, 15, 20, 30, 40}

AggressivenessArgs == -1..4

PaddingMsArgs == {0, 300}

InitCtor ==
    /\ RingUnused
    /\ VadUnused
    /\ AppUnused
    /\ LockUnused
    /\ UnitUnused

\* VADSegmenter(sample_rate, aggressiveness, frame_ms, padding_ms)
Construct ==
    \E sample_rate \in SampleRateArgs, aggressiveness \in AggressivenessArgs,
       frame_ms \in FrameMsArgs, padding_ms \in PaddingMsArgs :
        /\ vad_new' = Some(
              [ sample_rate |-> sample_rate, aggressiveness |-> aggressiveness,
                frame_ms |-> frame_ms, padding_ms |-> padding_ms,
                result |-> VADSegmenter_new(sample_rate, aggressiveness,
                                            frame_ms, padding_ms) ])
        /\ UNCHANGED <<wake_word, audio_capture, ring_vars, vad_vars, app_vars,
                       lock_vars>>

NextCtor == Construct

SpecCtor == InitCtor /\ [][NextCtor]_vars

\* C25: the constructor raises, and returns no instance, exactly when the
\* sample rate is not one of 8000, 16000, 32000, 48000, or the frame duration
\* is not one of 10, 20, 30, or the aggressiveness is outside 0..3; an
\* instance that is returned holds the three arguments as they were given
C25_InvalidRejected ==
    vad_new.some =>
        LET a == vad_new.val
            invalid == \/ ~(\E r \in {8, 16, 32, 48} : a.sample_rate = r * 1000)
                       \/ ~(\E f \in 1..3 : a.frame_ms = f * 10)
                       \/ a.aggressiveness < 0
                       \/ a.aggressiveness > 3
        IN  /\ invalid <=> a.result.raised # "no"
            /\ invalid <=> ~a.result.instance.some
            /\ ~invalid =>
                   /\ a.result.instance.val.sample_rate = a.sample_rate
                   /\ a.result.instance.val.frame_ms = a.frame_ms
                   /\ a.result.instance.val.vad_mode = a.aggressiveness

\* a call whose only invalid argument is the aggressiveness, one above the
\* range, has raised
C25_Witness ==
    /\ vad_new.some
    /\ vad_new.val.sample_rate = 16000
    /\ vad_new.val.frame_ms = 30
    /\ vad_new.val.aggressiveness = 4
    /\ vad_new.val.result.raised # "no"
    /\ ~vad_new.val.result.instance.some

(***************************************************************************)
(* SpecHistory: the consumer loop over a long run of utterances.  What the *)
(* capture threads, the queue and the segmenter do between two utterances  *)
(* is left out: the loop is entered with the next utterance.               *)
(***************************************************************************)
InitHistory == \E console_mode \in BOOLEAN : AppInit("microphone", console_mode)

\* for utterance in self.vad.process_audio(pcm_data): the next utterance
Utterance ==
    /\ cons.pc \in {"get", "iter"}
    /\ Len(app_obs.emit_log) < MaxUtterances
    /\ LET utterance == <<Len(app_obs.emit_log) + 1>>
       IN  /\ cons' = [cons EXCEPT !.pc = "stt", !.utterance = utterance]
           /\ app_obs' = [app_obs EXCEPT !.emit_log = Append(@, utterance),
                                         !.transcript = "none",
                                         !.events = <<>>,
                                         !.respond_args = None, !.notes = <<>>]
    /\ UNCHANGED <<unit_vars, lock_vars, current_mode, tts, ring_vars, vad_vars,
                   is_running, is_muted, audio_queue, transcript_history,
                   capture>>

NextHistory ==
    \/ Run
    \/ Quit
    \/ TtsDone
    \/ Utterance
    \/ ConsLoop
    \/ ConsGet
    \/ ConsIter
    \/ ConsTranscribe
    \/ ConsPresent
    \/ ConsRespond
    \/ ConsSpeak

SpecHistory == InitHistory /\ [][NextHistory]_vars

\* C26: the history never holds more than HistoryMaxlen entries (50 in the
\* program); it is the most recent entries appended, oldest first, the
\* oldest evicted on overflow; the context of a response is the last
\* min(ContextEntries, length) entries of the history in order (10 in the
\* program), and its last entry is the transcript that triggered the wake
C26_HistoryBounded ==
    LET h == transcript_history
        n == Len(h)
        a == app_obs.appended
    IN  /\ n <= HistoryMaxlen
        /\ n = IF Len(a) < HistoryMaxlen THEN Len(a) ELSE HistoryMaxlen
        /\ \A i \in 1..n : h[i] = a[Len(a) - n + i]
        /\ cons.pc = "respond" =>
               /\ n > 0
               /\ h[n] = [utt |-> cons.utterance, wake |-> TRUE]
        /\ app_obs.respond_args.some =>
               LET ctx == app_obs.respond_args.val.context
                   k == IF n < ContextEntries THEN n ELSE ContextEntries
               IN  /\ Len(ctx) = k
                   /\ \A i \in 1..k : ctx[i] = h[n - k + i]
                   /\ ctx[k].wake

\* more transcripts than the history holds have been appended, and a wake
\* hit after that has been answered with a full context
C26_Witness ==
    /\ Len(app_obs.appended) > HistoryMaxlen
    /\ app_obs.respond_args.some
    /\ Len(app_obs.respond_args.val.context) = ContextEntries
    /\ ~app_obs.respond_args.val.context[1].wake
    /\ cons.pc = "speak"

\* C27: whatever the audio source, a capture whose start raises does not
\* end the application: the consumer loop is started all the same
C27_StartFailureSurvived ==
    app_obs.start_failed # {} => (Alive /\ cons.pc # "not_started")

(***************************************************************************)
(* SpecWakeWord: a TextWakeWord for a bot name, asked about one            *)
(* transcript.  A string is the sequence of its characters.                *)
(***************************************************************************)
\* str.lower, on the characters that occur
lower_char(c) == IF c = "W" THEN "w" ELSE c

lower(str) == [i \in DOMAIN str |-> lower_char(str[i])]

\* str.strip: white space off both ends
RECURSIVE lstrip(_)
lstrip(str) ==
    IF str # <<>> /\ Head(str) = " " THEN lstrip(Tail(str)) ELSE str

RECURSIVE rstrip(_)
rstrip(str) ==
    IF str # <<>> /\ str[Len(str)] = " "
    THEN rstrip(SubSeq(str, 1, Len(str) - 1))
    ELSE str

strip(str) == rstrip(lstrip(str))

\* str.startswith
startswith(str, prefix) ==
    /\ Len(prefix) <= Len(str)
    /\ SubSeq(str, 1, Len(prefix)) = prefix

\* the characters \w matches
is_word_char(c) == c \notin {" ", "'"}

\* \b between the characters p and p + 1 of the text: a word character on
\* exactly one side
\* variant: no boundary is asked for
word_boundary_any(text, p) == TRUE

word_boundary(text, p) ==
    (p >= 1 /\ is_word_char(text[p]))
        # (p + 1 <= Len(text) /\ is_word_char(text[p + 1]))

\* the pattern \b<phrase>\b with re.IGNORECASE matches at position i
match_at(phrase, text, i) ==
    /\ i + Len(phrase) - 1 <= Len(text)
    /\ \A j \in 1..Len(phrase) :
           lower_char(text[i + j - 1]) = lower_char(phrase[j])
    /\ word_boundary(text, i - 1)
    /\ word_boundary(text, i + Len(phrase) - 1)

\* pattern.search(text): the leftmost match, match.end() with it
search(phrase, text) ==
    LET hits == {i \in 1..Len(text) : match_at(phrase, text, i)}
    IN  IF hits = {} THEN None
        ELSE LET i == CHOOSE h \in hits : \A g \in hits : h <= g
             IN  Some([start |-> i - 1, end |-> i - 1 + Len(phrase)])

\* _generate_alternatives: the misrecognitions of "watson", for that name
\* alone
alternatives(bot_name) ==
    IF bot_name = <<"w", "a", "t", "s", "o", "n">>
    THEN << <<"w", "h", "a", "t", "s", "o", "n">>,
            <<"w", "h", "a", "t", "'", "s", " ", "o", "n">>,
            <<"w", "a", "t", "t", " ", "s", "o", "n">>,
            <<"w", "a", "d", "s", "o", "n">> >>
    ELSE <<>>

\* TextWakeWord(bot_name)
TextWakeWord(bot_name) ==
    [ bot_name     |-> strip(lower(bot_name)),
      alternatives |-> alternatives(strip(lower(bot_name))) ]

\* is_wake(transcript): the transcript is None or a string
is_wake(self, transcript) ==
    IF ~transcript.some \/ transcript.val = <<>> THEN FALSE
    ELSE IF search(self.bot_name, transcript.val).some THEN TRUE
    ELSE \E k \in DOMAIN self.alternatives :
             search(self.alternatives[k], transcript.val).some

\* extract_command: the fillers, in the order they are tried
fillers ==
    << <<"u", "m">>,
       <<"u", "h">>,
       <<"s", "o">>,
       <<"p", "l", "e", "a", "s", "e">>,
       <<"c", "o", "u", "l", "d", " ", "y", "o", "u">>,
       <<"c", "a", "n", " ", "y", "o", "u">> >>

\* for filler in fillers: if command.lower().startswith(filler): cut it off
\* and strip.  The loop goes through the whole list.
RECURSIVE strip_fillers(_, _)
strip_fillers(command, todo) ==
    IF todo = <<>> THEN command
    ELSE strip_fillers(
             IF startswith(lower(command), Head(todo))
             THEN strip(SubSeq(command, Len(Head(todo)) + 1, Len(command)))
             ELSE command,
             Tail(todo))

\* extract_command: the match of the primary pattern, or else of the first
\* alternative in the list that matches
wake_match(self, text) ==
    LET primary == search(self.bot_name, text)
        alts == {k \in DOMAIN self.alternatives :
                     search(self.alternatives[k], text).some}
    IN  IF primary.some THEN primary
        ELSE IF alts = {} THEN None
        ELSE search(self.alternatives[
                        CHOOSE k \in alts : \A g \in alts : k <= g], text)

\* extract_command(transcript)
extract_command(self, transcript) ==
    IF ~is_wake(self, transcript) THEN None
    ELSE LET match == wake_match(self, transcript.val)
         IN  IF ~match.some THEN None
             ELSE LET command ==
                          strip_fillers(
                              strip(SubSeq(transcript.val, match.val.end + 1,
                                           Len(transcript.val))),
                              fillers)
                  IN  IF command = <<>> THEN None ELSE Some(command)

\* the bot names given to the constructor
BotNames == {<<"W", "a", "t", "s", "o", "n", " ">>, <<"s", "o">>}

\* what the transcripts are made of
Pieces ==
    { <<"w", "a", "t", "s", "o", "n">>,
      <<"W", "a", "t", "s", "o", "n", " ">>,
      <<"w", "h", "a", "t", "s", "o", "n">>,
      <<"w", "h", "a", "t", "'", "s", " ", "o", "n">>,
      <<" ">>,
      <<"u", "m", " ">>,
      <<"s", "o">>,
      <<"p", "l", "e", "a", "s", "e", " ">>,
      <<"x">> }

RECURSIVE TextsOf(_)
TextsOf(n) ==
    IF n = 0 THEN {<<>>}
    ELSE LET shorter == TextsOf(n - 1)
         IN  shorter \cup {t \o p : t \in shorter, p \in Pieces}

Transcripts == {None} \cup {Some(t) : t \in TextsOf(MaxPieces)}

InitWakeWord ==
    /\ RingUnused
    /\ VadUnused
    /\ AppUnused
    /\ LockUnused
    /\ UnitUnused

\* TextWakeWord(bot_name), then is_wake(transcript) and
\* extract_command(transcript)
WakeWordCall ==
    /\ wake_word = None
    /\ \E bot_name \in BotNames, transcript \in Transcripts :
          LET self == TextWakeWord(bot_name)
          IN  wake_word' = Some(
                  [ self       |-> self,
                    transcript |-> transcript,
                    is_wake    |-> is_wake(self, transcript),
                    command    |-> extract_command(self, transcript) ])
    /\ UNCHANGED <<vad_new, audio_capture, ring_vars, vad_vars, app_vars,
                 lock_vars>>

NextWakeWord == WakeWordCall

SpecWakeWord == InitWakeWord /\ [][NextWakeWord]_vars

\* the phrase occurs in the text at position i, whatever the case, with no
\* word character next to it on either side
WholeWordAt(phrase, text, i) ==
    /\ i + Len(phrase) - 1 <= Len(text)
    /\ lower(SubSeq(text, i, i + Len(phrase) - 1)) = phrase
    /\ i = 1 \/ text[i - 1] \in {" ", "'"}
    /\ i + Len(phrase) > Len(text) \/ text[i + Len(phrase)] \in {" ", "'"}

\* C28: is_wake is true exactly when the transcript is a non-empty text in
\* which the bot name or one of the alternatives occurs somewhere as a
\* whole word, case ignored; no text, the empty text, and a text holding
\* the phrase only inside a longer word are not matches
C28_WholeWordMatch ==
    wake_word.some =>
        LET w == wake_word.val
            rules == {w.self.bot_name} \cup Range(w.self.alternatives)
        IN  w.is_wake <=>
                /\ w.transcript.some
                /\ w.transcript.val # <<>>
                /\ \E phrase \in rules, i \in 1..Len(w.transcript.val) :
                       WholeWordAt(phrase, w.transcript.val, i)

\* "watson" asked about "xwatson": the name occurs, inside a longer word
C28_Witness ==
    /\ wake_word.some
    /\ wake_word.val.self.bot_name = <<"w", "a", "t", "s", "o", "n">>
    /\ wake_word.val.transcript = Some(<<"x", "w", "a", "t", "s", "o", "n">>)
    /\ ~wake_word.val.is_wake

\* what is left of a command after a filler at its front is cut off
Cut(command, filler) ==
    strip(SubSeq(command, Len(filler) + 1, Len(command)))

\* C29: extract_command returns none when is_wake is false; otherwise the
\* text after the match, stripped, with at most one filler cut off its
\* front, and none when nothing is left
C29_OneFillerRemoved ==
    wake_word.some =>
        LET w == wake_word.val
        IN  IF ~w.is_wake THEN w.command = None
            ELSE LET text == w.transcript.val
                     m == wake_match(w.self, text)
                     after == strip(SubSeq(text, m.val.end + 1, Len(text)))
                     first == {k \in DOMAIN fillers :
                                  /\ startswith(lower(after), fillers[k])
                                  /\ \A g \in 1..(k - 1) :
                                         ~startswith(lower(after), fillers[g])}
                     left == IF first = {} THEN after
                             ELSE Cut(after, fillers[CHOOSE k \in first : TRUE])
                 IN  w.command = IF left = <<>> THEN None ELSE Some(left)

(***************************************************************************)
(* Segmenter: how process_audio cuts a chunk into frames.                  *)
(***************************************************************************)
\* the step is one iteration of the loop of process_audio
IterateStep ==
    /\ vad_gen.active
    /\ vad_gen'.active
    /\ vad_obs'.frames = vad_obs.frames + 1

\* the step ends the loop of process_audio
ExhaustStep ==
    /\ vad_gen.active
    /\ ~vad_gen'.active
    /\ vad_obs'.op = "done"

IsSuffix(p, s) ==
    Len(p) <= Len(s) /\ SubSeq(s, Len(s) - Len(p) + 1, Len(s)) = p

\* the frame is the newest audio the segmenter holds or has just yielded
Newest(frame) ==
    \/ vad'.ring # <<>> /\ vad'.ring[Len(vad'.ring)].frame = frame
    \/ /\ vad'.current_utterance # <<>>
       /\ IsSuffix(frame, vad'.current_utterance[Len(vad'.current_utterance)])
    \/ vad_obs'.out.some /\ IsSuffix(frame, vad_obs'.out.val)

\* C30: while process_audio runs on a chunk of call_len bytes, what it has
\* not yet consumed is the tail of the chunk and what it has consumed is a
\* whole number of frames; each iteration classifies the next frame_bytes
\* bytes, in order from the start of the chunk; the loop ends when fewer
\* than frame_bytes bytes are left, after call_len \div frame_bytes frames,
\* and the call_len % frame_bytes bytes left go nowhere: the segmenter is as
\* the last frame left it and the generator is gone.  A chunk shorter than
\* one frame changes nothing in the segmenter.
C30_WholeFramesOnly ==
    /\ [](vad_gen.active =>
            /\ vad_obs.call_len - Len(vad_gen.rest)
                   = vad_obs.frames * vad.frame_bytes
            /\ vad_gen.rest = Bytes(vad_obs.fed - Len(vad_gen.rest),
                                    Len(vad_gen.rest)))
    /\ [][IterateStep =>
            LET frame == SubSeq(vad_gen.rest, 1, vad.frame_bytes)
            IN  /\ Len(vad_gen.rest) >= vad.frame_bytes
                /\ Len(frame) = vad.frame_bytes
                /\ vad_gen'.rest = SubSeq(vad_gen.rest, vad.frame_bytes + 1,
                                          Len(vad_gen.rest))
                /\ vad_obs'.op = "frame"
                /\ (vad_obs'.cls # "error" /\ vad.padding_frames > 0)
                       => Newest(frame)]_vars
    /\ [][ExhaustStep =>
            /\ Len(vad_gen.rest) < vad.frame_bytes
            /\ Len(vad_gen.rest) = vad_obs.call_len % vad.frame_bytes
            /\ vad_obs.frames = vad_obs.call_len \div vad.frame_bytes
            /\ vad' = vad
            /\ vad_gen' = gen_idle]_vars
    /\ [][(vad_gen.active /\ ~vad_gen.at_yield
              /\ vad_obs.call_len < vad.frame_bytes) => vad' = vad]_vars

\* process_audio has classified a frame of a chunk that is not a whole
\* number of frames, and what is left is shorter than a frame
C30_Witness ==
    /\ vad_gen.active
    /\ vad_obs.frames >= 1
    /\ vad_obs.call_len % vad.frame_bytes # 0
    /\ Len(vad_gen.rest) > 0
    /\ Len(vad_gen.rest) < vad.frame_bytes

(***************************************************************************)
(* Segmenter: the length and the make-up of an utterance.                  *)
(***************************************************************************)
\* C31: the utterance in progress and every utterance yielded or flushed
\* hold at most max_utterance_seconds of audio (MaxUtteranceFrames frames)
C31_UtteranceBounded ==
    /\ Len(join(vad.current_utterance)) <= MaxUtteranceFrames * vad.frame_bytes
    /\ vad_obs.out.some =>
           Len(vad_obs.out.val) <= MaxUtteranceFrames * vad.frame_bytes

\* the bytes are stream positions in rising order, cut into whole frames,
\* each frame frame_bytes consecutive positions
RunOfFrames(bytes, frame_bytes) ==
    /\ Len(bytes) % frame_bytes = 0
    /\ \A i \in 1..(Len(bytes) - 1) : bytes[i] < bytes[i + 1]
    /\ \A f \in 0..((Len(bytes) \div frame_bytes) - 1) :
           \A j \in 1..(frame_bytes - 1) :
               bytes[f * frame_bytes + j + 1] = bytes[f * frame_bytes + j] + 1

\* C32: an utterance yielded by process_audio or returned by flush is the
\* frames of one run, joined in order: the frames the decision window held
\* at the trigger (at most K, none that the window had dropped before),
\* then every frame classified while SPEAKING.  It is not empty, it is a
\* whole number of frames, and once it is out the segmenter keeps none of
\* its frames, so no frame gets into a second utterance.
C32_UtteranceOfFrames ==
    /\ vad.triggered => join(vad.current_utterance) = vad_obs.since
    /\ RunOfFrames(vad_obs.since, vad.frame_bytes)
    /\ vad_obs.out.some =>
           /\ vad_obs.out.val = vad_obs.expect
           /\ vad_obs.out.val # <<>>
           /\ RunOfFrames(vad_obs.out.val, vad.frame_bytes)
           /\ IsPrefix(vad_obs.seed, vad_obs.out.val)
           /\ Len(vad_obs.seed) <= K * vad.frame_bytes
           /\ vad.ring = <<>>
           /\ vad.current_utterance = <<>>
           /\ vad_obs.since = <<>>

\* process_audio has yielded an utterance of several frames that begins
\* after the first frame fed and leaves out a frame in its middle
C32_Witness ==
    /\ vad_obs.op = "frame"
    /\ vad_obs.out.some
    /\ vad_obs.out.val[1] > 1
    /\ Len(vad_obs.out.val) >= 2 * vad.frame_bytes
    /\ vad_obs.out.val[Len(vad_obs.out.val)]
           >= vad_obs.out.val[1] + Len(vad_obs.out.val)

\* C33: the decision window is emptied at the trigger, so while SPEAKING it
\* holds frames classified after the trigger only, and a silent frame of
\* the seed is never counted towards the end; an utterance yielded by
\* process_audio is its seed followed by at least floor(0.8 K) + 1 frames
C33_MinimumTail ==
    /\ vad.triggered =>
           /\ IsPrefix(vad_obs.seed, vad_obs.since)
           /\ IsSuffix(join(ring_frames(vad.ring)),
                       SubSeq(vad_obs.since, Len(vad_obs.seed) + 1,
                              Len(vad_obs.since)))
    /\ (vad_obs.op = "frame" /\ vad_obs.out.some) =>
           Len(vad_obs.out.val) >=
               Len(vad_obs.seed) + ((8 * K) \div 10 + 1) * vad.frame_bytes

\* K = 3: the seed is a full window, so one of its frames is silent (two
\* voiced frames trigger); the utterance ended with the third frame after
\* the trigger, not with the second
C33_Witness ==
    /\ K = 3
    /\ vad_obs.op = "frame"
    /\ vad_obs.out.some
    /\ Len(vad_obs.seed) = 3 * vad.frame_bytes
    /\ Len(vad_obs.out.val) = Len(vad_obs.seed) + 3 * vad.frame_bytes

C35_SameOrder == IsSubseq(app_obs.enq_log, app_obs.rb_log)

(***************************************************************************)
(* Orchestrator: mute and the segmenter; the presentation collaborator.    *)
(***************************************************************************)
\* the stream positions of the chunks dropped by the mute check
MutedBytes == UNION {Range(c) : c \in app_obs.muted_drops}

\* C36: a step that sets or clears the mute flag changes nothing in the
\* segmenter, its generator or the queue; the segmenter changes only when
\* the consumer iterates the generator, and that step leaves the flag alone
C36_MuteLeavesSegmenter ==
    /\ [][is_muted' # is_muted =>
             /\ vad' = vad
             /\ vad_gen' = vad_gen
             /\ audio_queue' = audio_queue]_vars
    /\ [][vad' # vad => (cons.pc = "iter" /\ is_muted' = is_muted)]_vars

\* an utterance has been yielded that holds a chunk captured before a
\* muted interval and a chunk captured after it
C36_Witness ==
    \E i \in DOMAIN app_obs.emit_log :
        \E m \in MutedBytes :
            /\ app_obs.emit_log[i][1] < m
            /\ m < app_obs.emit_log[i][Len(app_obs.emit_log[i])]

\* C37: for an utterance with a non-empty transcript the window gets one
\* add_transcript call, no more, and its is_wake argument says whether the
\* transcript is a wake hit
C37_OneNotification ==
    /\ Len(app_obs.notes) <= 1
    /\ \A i \in DOMAIN app_obs.notes :
           app_obs.notes[i].is_wake = (app_obs.transcript = "wake")
    /\ (~app_obs.console_mode /\ cons.pc \in {"respond", "speak"}) =>
           Len(app_obs.notes) = 1

\* ------------------------------------------------------------------------
\* The capture objects: MicrophoneCapture and LoopbackCapture, one at a time,
\* called from one thread.
\* ------------------------------------------------------------------------

\* calls made on one capture object
MaxCaptureCalls == 4

\* the device argument: None, or the index of an input device
Devices == {None, Some(0)}

\* the callback argument of start(): optional
Callbacks == {None, Some("on_audio")}

\* what sd.InputStream(...) and stream.start() do: the stream is opened and
\* started, the constructor raises, or start() raises on the opened stream
StreamOutcomes == {"started", "open_raises", "start_raises"}

\* MicrophoneCapture.__init__ / LoopbackCapture.__init__
capture_new(kind, device) ==
    [ kind       |-> kind,
      device     |-> device,
      stream     |-> None,
      is_running |-> FALSE,
      callback   |-> None,
      queue      |-> None ]

\* the queue made when use_queue is set
with_queue(self, use_queue) ==
    IF use_queue THEN [self EXCEPT !.queue = Some("Queue")] ELSE self

\* MicrophoneCapture.start(callback, use_queue): the object after the call,
\* and the exception that left it
MicrophoneCapture_start(self, callback, use_queue, outcome, id) ==
    IF self.is_running
    THEN [self |-> self, raised |-> "already_running"]
    ELSE LET set == with_queue([self EXCEPT !.callback = callback,
                                             !.is_running = TRUE], use_queue)
         IN  CASE outcome = "open_raises" ->
                    [self |-> set, raised |-> "stream"]
               [] outcome = "start_raises" ->
                    [self |-> [set EXCEPT !.stream =
                                   Some([id |-> id, active |-> FALSE])],
                     raised |-> "stream"]
               [] OTHER ->
                    [self |-> [set EXCEPT !.stream =
                                   Some([id |-> id, active |-> TRUE])],
                     raised |-> "none"]

\* LoopbackCapture.start(callback, use_queue)
LoopbackCapture_start(self, callback, use_queue, outcome, id) ==
    IF self.is_running
    THEN [self |-> self, raised |-> "already_running"]
    ELSE IF self.device = None
    THEN [self |-> self, raised |-> "no_device"]
    ELSE LET set == with_queue([self EXCEPT !.callback = callback,
                                             !.is_running = TRUE], use_queue)
         IN  CASE outcome = "open_raises" ->
                    [self |-> [set EXCEPT !.is_running = FALSE],
                     raised |-> "stream"]
               [] outcome = "start_raises" ->
                    [self |-> [set EXCEPT !.stream =
                                   Some([id |-> id, active |-> FALSE]),
                                          !.is_running = FALSE],
                     raised |-> "stream"]
               [] OTHER ->
                    [self |-> [set EXCEPT !.stream =
                                   Some([id |-> id, active |-> TRUE])],
                     raised |-> "none"]

\* MicrophoneCapture.stop()
MicrophoneCapture_stop(self) ==
    IF ~self.is_running
    THEN self
    ELSE [self EXCEPT !.is_running = FALSE, !.stream = None,
                      !.callback = None, !.queue = None]

\* LoopbackCapture.stop()
LoopbackCapture_stop(self) ==
    IF ~self.is_running
    THEN self
    ELSE [self EXCEPT !.is_running = FALSE, !.stream = None,
                      !.callback = None, !.queue = None]

\* start() of the object's class
capture_start(self, callback, use_queue, outcome, id) ==
    IF self.kind = "mic"
    THEN MicrophoneCapture_start(self, callback, use_queue, outcome, id)
    ELSE LoopbackCapture_start(self, callback, use_queue, outcome, id)

\* stop() of the object's class
capture_stop(self) ==
    IF self.kind = "mic"
    THEN MicrophoneCapture_stop(self)
    ELSE LoopbackCapture_stop(self)

\* the streams an object holds: none or one
held(self) == IF self.stream.some THEN {self.stream.val.id} ELSE {}

InitCapture ==
    /\ RingUnused
    /\ VadUnused
    /\ AppUnused
    /\ LockUnused
    /\ vad_new = None
    /\ wake_word = None
    /\ \E kind \in {"mic", "loopback"}, device \in Devices :
          audio_capture = Some(
              [ self    |-> capture_new(kind, device),
                was     |-> capture_new(kind, device),
                op      |-> "new",
                raised  |-> "none",
                calls   |-> 0,
                streams |-> 0,
                open    |-> {} ])

\* one call of start()
CaptureStart ==
    /\ audio_capture.some
    /\ audio_capture.val.calls < MaxCaptureCalls
    /\ \E callback \in Callbacks, use_queue \in BOOLEAN,
          outcome \in StreamOutcomes :
          LET c      == audio_capture.val
              id     == c.streams + 1
              r      == capture_start(c.self, callback, use_queue, outcome, id)
              reached == r.raised \in {"none", "stream"}
              opened == reached /\ outcome # "open_raises"
          IN  audio_capture' = Some(
                  [ self    |-> r.self,
                    was     |-> c.self,
                    op      |-> "start",
                    raised  |-> r.raised,
                    calls   |-> c.calls + 1,
                    streams |-> IF opened THEN id ELSE c.streams,
                    open    |-> IF opened THEN c.open \cup {id} ELSE c.open ])
    /\ UNCHANGED <<vad_new, wake_word, ring_vars, vad_vars, app_vars,
                   lock_vars>>

\* one call of stop()
CaptureStop ==
    /\ audio_capture.some
    /\ audio_capture.val.calls < MaxCaptureCalls
    /\ LET c == audio_capture.val
           r == capture_stop(c.self)
       IN  audio_capture' = Some(
               [ c EXCEPT !.self   = r,
                          !.was    = c.self,
                          !.op     = "stop",
                          !.raised = "none",
                          !.calls  = c.calls + 1,
                          !.open   = IF c.self.is_running
                                     THEN c.open \ held(c.self)
                                     ELSE c.open ])
    /\ UNCHANGED <<vad_new, wake_word, ring_vars, vad_vars, app_vars,
                   lock_vars>>

NextCapture == CaptureStart \/ CaptureStop

SpecCapture == InitCapture /\ [][NextCapture]_vars

\* C38: start() on a running capture raises and leaves the stream, the
\* callback and the running flag as they were; stop() on a capture that is
\* not running changes nothing; after stop() the capture is not running and
\* has neither stream nor callback, and the next start() is not refused as
\* already running.
C38_Lifecycle ==
    audio_capture.some =>
        LET c == audio_capture.val
        IN  /\ (c.op = "start" /\ c.was.is_running) =>
                   (c.raised = "already_running" /\ c.self = c.was)
            /\ (c.op = "stop" /\ ~c.was.is_running) => c.self = c.was
            /\ c.op = "stop" =>
                   /\ ~c.self.is_running
                   /\ c.self.stream = None
                   /\ c.self.callback = None
            /\ (c.op = "start" /\ ~c.was.is_running) =>
                   c.raised # "already_running"

\* C39: a start() that raised because the stream could not be opened or
\* started leaves the capture not running.
C39_FailedStartNotRunning ==
    audio_capture.some =>
        LET c == audio_capture.val
        IN  (c.op = "start" /\ c.raised = "stream") => ~c.self.is_running
====
